---- MODULE Spec2Model ----
(***************************************************************************)
(* Model of the Calibre -> folder synchronisation (CalibreSync.sync and    *)
(* the classes it drives: FileOperations, KOReaderManager, CalibreClient). *)
(*                                                                         *)
(* A filesystem name "<base> (<id>)<ext>" is the record [base, id, ext];   *)
(* id = NoId stands for a name without the "(<digits>)" group.  A sidecar  *)
(* directory is a name whose ext is ".sdr".  The location file of a        *)
(* sidecar is abstracted to the state of its doc_path assignment; the      *)
(* character-level behaviour of updateDocPath is modelled separately.      *)
(***************************************************************************)
EXTENDS Integers, Sequences, FiniteSets, TLC

\* ------------------------------------------------------------------ bounds
MaxBooks == 2
MaxTime == 1
MaxRuns == 2
MaxTargetFiles == 1
MaxSidecars == 1
MaxCleanupFiles == 3
MaxPathLen == 2
MaxFormats == 3
MaxNameLen == 6
\* size of the scene the first run starts from: files and sidecars, plus twice
\* the catalog rows
MaxObjects == 2 * MaxBooks

\* ---------------------------------------------------------------- universes
NoId == 0
Ids == 1..MaxBooks
Times == 0..MaxTime
Titles == {"A", "B:"}
Dirs == {"root", "sub"}
Formats == {"EPUB", "PDF", "DJVU"}
Exts == {".epub", ".pdf", ".djvu"}
SdrExt == ".sdr"

\* String.prototype.toLowerCase on a format tag
toLowerCase(format) ==
    CASE format = "EPUB" -> "epub"
      [] format = "PDF" -> "pdf"
      [] format = "DJVU" -> "djvu"
      [] format = "CBZ" -> "cbz"
      [] format = "MOBI" -> "mobi"
      [] format = "AZW3" -> "azw3"
      [] format = "FB2" -> "fb2"
      [] format = "TXT" -> "txt"
      [] OTHER -> format

\* the lists of available formats a catalog row can carry (GROUP_CONCAT order)
FormatLists ==
    { <<>>, <<"EPUB">>, <<"PDF">>, <<"DJVU">> }

\* config.supportedExtensions
SupportedChoices == { {".epub", ".pdf", ".djvu"}, {".epub"} }

Range(s) == { s[i] : i \in DOMAIN s }

VARIABLES
    books,          \* the catalog rows, in enumeration order
    supported,      \* FileOperations.supportedExtensions
    now,            \* the wall clock of the machine that runs the sync
    target,         \* the files under config.syncTargetPath
    sidecars,       \* the .sdr directories under config.koreaderPath
    pc,             \* where sync() stands
    idx,            \* index of the record being processed
    fmt,            \* preferredFormat of the record being processed
    currentFiles,   \* the kept set handed to cleanup
    result,         \* SyncResult
    run,            \* number of sync() runs started
    invocations,    \* number of times the sync command is invoked in all
    hist,           \* what the current run did (observation only)
    dryRun,         \* config.dryRun
    exitCode,       \* exit status of the sync command, Running until it ends
    fileContent,    \* updateDocPath: the text of a location file
    docPathArg,     \* updateDocPath: the path to write into it
    patchedContent, \* updateDocPath: the text returned
    ppc,            \* updateDocPath: "call" before the call, "done" after
    fnName,         \* a function called on its own: its name, "none" when none is
    fnArg,          \* its argument
    fnRet,          \* what it returned, Pending before the call
    epubDir,        \* legacy fixer: the file names in the epub directory
    docsettings,    \* legacy fixer: the directories under the docsettings directory
    fixDryRun,      \* legacy fixer: the --dry-run option
    fpc,            \* legacy fixer: where fixKoReaderMetadata stands
    epubFiles,      \* legacy fixer: the scanned EpubFile list
    sidecarDirs,    \* legacy fixer: the scanned SidecarDir entries still to process
    backup,         \* legacy fixer: what createBackup left under .backups
    fixHist         \* legacy fixer: its counters and what it did (observation)

syncVars == <<books, supported, now, target, sidecars, pc, idx, fmt,
              currentFiles, result, run, invocations, hist, dryRun, exitCode>>
patchVars == <<fileContent, docPathArg, patchedContent, ppc>>
\* the variables the sync run leaves alone
pureVars == <<fnName, fnArg, fnRet>>
fixVars == <<epubDir, docsettings, fixDryRun, fpc, epubFiles, sidecarDirs, backup, fixHist>>
otherVars == <<patchVars, pureVars, fixVars, dryRun>>
vars == <<syncVars, patchVars, pureVars, fixVars>>

\* ------------------------------------------------------------ data shapes
FileName(base, id, ext) == [base |-> base, id |-> id, ext |-> ext]
NoName == FileName("", NoId, "")
Path(dir, name) == [dir |-> dir, name |-> name]
NoPath == Path("none", NoName)
PathOf(f) == Path(f.dir, f.name)
NoFormat == "null"
SystemBook == [title |-> "System", id |-> NoId]

\* TemplateEngine.render for the template "{title}": the title itself
render(book) == book.title

\* sanitizeFilename: drops the characters <>:"/\|?* (the title "B:" holds one)
sanitizeFilename(filename) ==
    CASE filename = "B:" -> "B"
      [] OTHER -> filename

Bases == { sanitizeFilename(t) : t \in Titles }

\* FileOperations.buildFilenameWithId: "<baseName> (<id>)<ext>", the dot added
\* when the extension comes without one
buildFilenameWithId(baseName, id, extension) ==
    LET ext == IF extension \in Exts THEN extension ELSE "." \o extension
    IN  FileName(baseName, id, ext)

\* FileOperations.getFileExtension / path.extname
getFileExtension(filename) == filename.ext

\* FileOperations.isSupportedBookFile
isSupportedBookFile(filename) == getFileExtension(filename) \in supported

\* FileOperations.findBookFiles: every supported file, at any depth
findBookFiles(files) == { f \in files : isSupportedBookFile(f.name) }

\* CalibreSync.getPreferredFormat
formatPreference == <<"EPUB", "CBZ", "PDF", "MOBI", "AZW3", "FB2">>

\* getPreferredFormat walking the available formats and taking the first one
\* that the preference order knows
getPreferredFormat_firstListed(availableFormats) ==
    LET known == { j \in DOMAIN availableFormats :
                     availableFormats[j] \in Range(formatPreference) }
        supp == { j \in DOMAIN availableFormats :
                     ("." \o toLowerCase(availableFormats[j])) \in supported }
        first(S) == CHOOSE i \in S : \A k \in S : i <= k
    IN  IF known # {} THEN availableFormats[first(known)]
        ELSE IF supp # {} THEN availableFormats[first(supp)]
        ELSE NoFormat

getPreferredFormat(availableFormats) ==
    LET avail == { i \in DOMAIN formatPreference :
                     formatPreference[i] \in Range(availableFormats) }
        supp == { j \in DOMAIN availableFormats :
                     ("." \o toLowerCase(availableFormats[j])) \in supported }
        first(S) == CHOOSE i \in S : \A k \in S : i <= k
    IN  IF avail # {} THEN formatPreference[first(avail)]
        ELSE IF supp # {} THEN availableFormats[first(supp)]
        ELSE NoFormat

\* the name and path sync() derives for a record whose format is format
canonicalName(book, format) ==
    buildFilenameWithId(sanitizeFilename(render(book)), book.id, toLowerCase(format))
targetPathOf(filename) == Path("root", filename)

\* fs.stat on a path of the target folder: the set holding the file, or {}
stat(files, p) == { f \in files : PathOf(f) = p }

\* bookNeedsUpdate taking a file as stale when it is not newer than the record
bookNeedsUpdate_notNewer(book, targetPath) ==
    LET st == stat(target, targetPath)
    IN  IF st = {} THEN TRUE
        ELSE \E f \in st : book.last_modified >= f.mtime
\* bookNeedsUpdate looking only at whether the file is there
bookNeedsUpdate_missingOnly(book, targetPath) ==
    stat(target, targetPath) = {}

\* CalibreSync.bookNeedsUpdate
bookNeedsUpdate(book, targetPath) ==
    LET st == stat(target, targetPath)
    IN  IF st = {} THEN TRUE
        ELSE \E f \in st : book.last_modified > f.mtime

\* CalibreClient.exportBook, the successful outcome: the exported file is moved
\* onto outputPath; it carries the time at which calibredb wrote it
exportBook(files, outputPath) ==
    { f \in files : PathOf(f) # outputPath }
        \cup { [dir |-> outputPath.dir, name |-> outputPath.name, mtime |-> now] }

\* ------------------------------------------------------------- sidecars
\* A sidecar directory: where it lies, its name, and its location file:
\*   "empty"    an empty directory
\*   "nofile"   files, but none of the possibleMetadataFiles
\*   "nostruct" a metadata file with neither a doc_path nor "return {"
\*   "nokey"    a metadata file with "return {" and no doc_path assignment
\*   "key"      a metadata file whose doc_path assignment holds doc
Sidecar(dir, name, kind, doc) == [dir |-> dir, name |-> name, kind |-> kind, doc |-> doc]
MetaKinds == {"empty", "nofile", "nostruct", "nokey", "key"}

\* KOReaderManager.extractIdFromSdrName
extractIdFromSdrName(sdrName) ==
    IF sdrName.ext = SdrExt THEN sdrName.id ELSE NoId

\* findSdrDirectories returning every .sdr directory, whatever id its name holds
findSdrDirectories_anyId(scs, bookId) ==
    { PathOf(d) : d \in { d \in scs : extractIdFromSdrName(d.name) # NoId } }

\* KOReaderManager.findSdrDirectories / searchSdrDirectories
findSdrDirectories(scs, bookId) ==
    { PathOf(d) : d \in { d \in scs : extractIdFromSdrName(d.name) = bookId } }

\* KOReaderManager.buildSdrNameFromFilename
buildSdrNameFromFilename(filename) ==
    FileName(filename.base, filename.id, SdrExt)

\* ------------------------------------------ updateDocPath, character by character
\* A text is a sequence of one-character strings.
Quote == "\""
DocPathKey == <<"[", Quote, "d", "o", "c", "_", "p", "a", "t", "h", Quote, "]">>
ReturnMarker == <<"r", "e", "t", "u", "r", "n", " ", "{">>
Digits == <<"0", "1", "2", "3", "4", "5", "6", "7", "8", "9">>
isDigit(c) == \E k \in DOMAIN Digits : Digits[k] = c
digitValue(c) == (CHOOSE k \in DOMAIN Digits : Digits[k] = c) - 1
\* \s of the regular expression
isSpace(c) == c \in {" ", "\n"}
HasAt(s, i, w) == i >= 1 /\ i + Len(w) - 1 <= Len(s) /\ \A k \in 1..Len(w) : s[i + k - 1] = w[k]
\* \s* from position i: the first position that holds no space
RECURSIVE skipSpace(_, _)
skipSpace(s, i) == IF i <= Len(s) /\ isSpace(s[i]) THEN skipSpace(s, i + 1) ELSE i
\* [^"]+ from position i: the first position that holds a quote
RECURSIVE skipValue(_, _)
skipValue(s, i) == IF i <= Len(s) /\ s[i] # Quote THEN skipValue(s, i + 1) ELSE i

\* docPathRegex /(\s*\["doc_path"\]\s*=\s*")([^"]+)(")/ tried at position i
NoMatch == [found |-> FALSE, start |-> 0, open |-> 0, close |-> 0]
matchAt(s, i) ==
    LET k == skipSpace(s, i)
        e == skipSpace(s, k + Len(DocPathKey))
        o == skipSpace(s, e + 1)
        c == skipValue(s, o + 1)
    IN  IF /\ HasAt(s, k, DocPathKey) /\ HasAt(s, e, <<"=">>) /\ HasAt(s, o, <<Quote>>)
           /\ c > o + 1 /\ c <= Len(s)
        THEN [found |-> TRUE, start |-> i, open |-> o, close |-> c]
        ELSE NoMatch
\* content.match(docPathRegex): the leftmost match
match(s) ==
    LET starts == { i \in 1..Len(s) : matchAt(s, i).found }
    IN  IF starts = {} THEN NoMatch
        ELSE matchAt(s, CHOOSE i \in starts : \A j \in starts : i <= j)
\* capture group n of match m
group(s, m, n) ==
    CASE n = 1 -> SubSeq(s, m.start, m.open)
      [] n = 2 -> SubSeq(s, m.open + 1, m.close - 1)
      [] OTHER -> <<Quote>>
GroupCount == 3

\* String.prototype.replace with a replacement string: the expansion of the
\* replacement from position i on ($$, $&, $`, $', $n and $nn are patterns)
RECURSIVE getSubstitution(_, _, _, _)
getSubstitution(s, m, repl, i) ==
    IF i > Len(repl) THEN <<>>
    ELSE IF repl[i] # "$" \/ i = Len(repl)
         THEN <<repl[i]>> \o getSubstitution(s, m, repl, i + 1)
    ELSE LET c == repl[i + 1]
             two == IF i + 2 <= Len(repl) /\ isDigit(c) /\ isDigit(repl[i + 2])
                    THEN 10 * digitValue(c) + digitValue(repl[i + 2]) ELSE 0
         IN  CASE c = "$" -> <<"$">> \o getSubstitution(s, m, repl, i + 2)
               [] c = "&" -> SubSeq(s, m.start, m.close) \o getSubstitution(s, m, repl, i + 2)
               [] c = "`" -> SubSeq(s, 1, m.start - 1) \o getSubstitution(s, m, repl, i + 2)
               [] c = "'" -> SubSeq(s, m.close + 1, Len(s)) \o getSubstitution(s, m, repl, i + 2)
               [] isDigit(c) /\ two \in 1..GroupCount ->
                      group(s, m, two) \o getSubstitution(s, m, repl, i + 3)
               [] isDigit(c) /\ two \notin 1..GroupCount /\ digitValue(c) \in 1..GroupCount ->
                      group(s, m, digitValue(c)) \o getSubstitution(s, m, repl, i + 2)
               [] OTHER -> <<"$">> \o getSubstitution(s, m, repl, i + 1)
\* content.replace(docPathRegex, repl)
replace(s, m, repl) ==
    SubSeq(s, 1, m.start - 1) \o getSubstitution(s, m, repl, 1) \o SubSeq(s, m.close + 1, Len(s))

\* content.indexOf(w), counted from 0; -1 when absent
indexOf(s, w) ==
    LET at == { i \in 1..Len(s) : HasAt(s, i, w) }
    IN  IF at = {} THEN -1 ELSE (CHOOSE i \in at : \A j \in at : i <= j) - 1
\* content.substring(from, to) and content.substring(from), counted from 0
Min(a, b) == IF a <= b THEN a ELSE b
substring(s, from, to) == SubSeq(s, Min(from, Len(s)) + 1, Min(to, Len(s)))
InsertOffset == 9
InsertedBefore == <<"\n", " ", " ", " ", " ">> \o DocPathKey \o <<" ", "=", " ", Quote>>
InsertedAfter == <<Quote, ",">>

\* KOReaderManager.updateDocPath
updateDocPath(content, newDocPath) ==
    LET m == match(content)
        insertPoint == indexOf(content, ReturnMarker)
    IN  IF m.found
        THEN replace(content, m, <<"$", "1">> \o newDocPath \o <<"$", "3">>)
        ELSE IF insertPoint # -1
        THEN substring(content, 0, insertPoint + InsertOffset)
             \o InsertedBefore \o newDocPath \o InsertedAfter
             \o substring(content, insertPoint + InsertOffset, Len(content))
        ELSE content

\* KOReaderManager.updateDocPath as it acts on the abstracted location file of
\* a sidecar, for paths without a $ (those of Titles)
setDocPath(d, newDocPath) ==
    CASE d.kind = "key" -> [d EXCEPT !.doc = newDocPath]
      [] d.kind = "nokey" -> [d EXCEPT !.kind = "key", !.doc = newDocPath]
      [] OTHER -> d

\* KOReaderManager.updateSdrMetadata: the sidecar after the call; the call
\* returns TRUE iff the sidecar changed
updateSdrMetadata(d, newDocPath) ==
    IF d.kind \in {"empty", "nofile"} THEN d ELSE setDocPath(d, newDocPath)

\* KOReaderManager.renameSdrDirectory: fs.rename(oldPath, newPath).  A rename
\* onto an existing directory replaces it when it is empty and fails otherwise.
\* The result is the sidecar set and whether the rename took place.
renameSdrDirectory(scs, oldPath, newFilename) ==
    LET newPath == Path(oldPath.dir, buildSdrNameFromFilename(newFilename))
        old == CHOOSE d \in scs : PathOf(d) = oldPath
        there == { d \in scs : PathOf(d) = newPath }
    IN  IF oldPath = newPath THEN [scs |-> scs, ok |-> TRUE, moved |-> FALSE]
        ELSE IF \E d \in there : d.kind # "empty"
             THEN [scs |-> scs, ok |-> FALSE, moved |-> FALSE]
        ELSE [scs |-> ((scs \ there) \ {old}) \cup {[old EXCEPT !.name = newPath.name]},
              ok |-> TRUE, moved |-> TRUE]

\* CalibreSync.updateKOReaderMetadata, the loop over sdrDirs taken in order
RECURSIVE reconcileLoop(_, _, _, _)
reconcileLoop(order, st, targetPath, filename) ==
    IF order = <<>> THEN st
    ELSE LET sdrDir == Head(order)
             here == { d \in st.scs : PathOf(d) = sdrDir }
         IN  IF here = {} THEN reconcileLoop(Tail(order), st, targetPath, filename)
             ELSE
             LET d == CHOOSE x \in here : TRUE
                 patched == updateSdrMetadata(d, targetPath)
                 metadataUpdated == patched # d
                 scs1 == (st.scs \ {d}) \cup {patched}
                 expectedSdrName ==
                     FileName(filename.base, filename.id, SdrExt)
                 mustRename == sdrDir.name # expectedSdrName
                 rn == IF mustRename THEN renameSdrDirectory(scs1, sdrDir, filename)
                       ELSE [scs |-> scs1, ok |-> FALSE, moved |-> FALSE]
                 st1 == [scs |-> rn.scs,
                         updated |-> st.updated \/ (mustRename /\ rn.ok) \/ metadataUpdated,
                         renames |-> st.renames + (IF rn.moved THEN 1 ELSE 0),
                         writes |-> st.writes + (IF metadataUpdated THEN 1 ELSE 0)]
             IN  reconcileLoop(Tail(order), st1, targetPath, filename)

\* the orders in which readdir can list a set of directories
Orders(S) ==
    { o \in [1..Cardinality(S) -> S] : \A i, j \in DOMAIN o : i # j => o[i] # o[j] }

updateKOReaderMetadata(scs, order, targetPath, filename) ==
    reconcileLoop(order, [scs |-> scs, updated |-> FALSE, renames |-> 0, writes |-> 0],
                  targetPath, filename)

\* -------------------------------------------------------------- cleanup
\* removeObsoleteFiles walking every file instead of the supported ones
removeObsoleteFiles_anyFile(files, kept) ==
    LET obsolete == { f \in files : f.name \notin kept }
    IN  { [removed |-> obsolete, failedAt |-> {}] }
        \cup UNION { { [removed |-> D, failedAt |-> {f}] : D \in SUBSET (obsolete \ {f}) } :
                      f \in obsolete }

\* FileOperations.removeObsoleteFiles: the possible outcomes.  The supported
\* files are listed, then unlinked one by one unless their basename is kept; the
\* first unlink that fails ends the loop.  readdir order is not specified, so
\* the files removed before a failure are any subset of the other obsolete ones.
removeObsoleteFiles(files, kept) ==
    LET existingFiles == findBookFiles(files)
        obsolete == { f \in existingFiles : f.name \notin kept }
    IN  { [removed |-> obsolete, failedAt |-> {}] }
        \cup UNION { { [removed |-> D, failedAt |-> {f}] : D \in SUBSET (obsolete \ {f}) } :
                      f \in obsolete }

\* ------------------------------------------------------------ the run
ZeroResult == [processed |-> 0, updated |-> 0, errors |-> <<>>, koreaderUpdates |-> 0]
NoPrev ==
    [ran |-> FALSE, cleaned |-> FALSE, errors |-> 0, cleanupFailed |-> FALSE, start |-> 0,
     updated |-> 0, interrupted |-> NoId]
NewHist(prev) ==
    [pre |-> target, preSc |-> sidecars, log |-> <<>>, renames |-> 0, writes |-> 0,
     deleted |-> {}, failedAt |-> {}, kept |-> {}, atCleanup |-> {}, cleaned |-> FALSE,
     prev |-> prev]
Event(op, id) == [op |-> op, id |-> id]
Logged(op, id) == [hist EXCEPT !.log = Append(@, Event(op, id))]
ErrorEntry(book, error) == [book |-> [title |-> book.title, id |-> book.id], error |-> error]

\* the for loop of sync() left after its first record
NextRecord_endsLoop ==
    pc' = "cleanup" /\ idx' = 0

\* the for loop of sync() moves to the next record, or on to the cleanup
NextRecord ==
    IF idx < Len(books)
    THEN pc' = "record" /\ idx' = idx + 1
    ELSE pc' = "cleanup" /\ idx' = 0

\* no exit status yet
Running == -1

\* new CalibreSync(config) and the entry of sync(): main-sync.ts 15-32
StartRun ==
    /\ pc = "idle" /\ run < invocations
    /\ run' = run + 1
    /\ result' = ZeroResult
    /\ currentFiles' = {}
    /\ hist' = NewHist(hist.prev)
    /\ pc' = "enumerate" /\ idx' = 0 /\ fmt' = NoFormat
    /\ exitCode' = Running
    /\ UNCHANGED <<otherVars, invocations, books, supported, now, target, sidecars>>

\* cli.ts 23-34 and 59-62: loadConfig, validateConfig or the constructor of
\* CalibreSync throws; the action's catch ends the process with status 1
SetupFail ==
    /\ pc = "idle" /\ run < invocations
    /\ run' = run + 1
    /\ exitCode' = 1
    /\ UNCHANGED <<otherVars, invocations, books, supported, now, target, sidecars, pc, idx,
                   fmt, currentFiles, result, hist>>

\* getAllBooks and getCustomFields return: main-sync.ts 36-42
EnumerateOk ==
    /\ pc = "enumerate"
    /\ IF Len(books) = 0 THEN pc' = "cleanup" /\ idx' = 0
       ELSE pc' = "record" /\ idx' = 1
    /\ UNCHANGED <<otherVars, invocations, exitCode, books, supported, now, target, sidecars, fmt, currentFiles,
                   result, run, hist>>

\* a failed enumeration that leaves sync() without closing the client
EnumerateFail_leak ==
    /\ pc = "enumerate"
    /\ result' = [result EXCEPT !.errors = Append(@, ErrorEntry(SystemBook, "system"))]
    /\ pc' = "report"
    /\ UNCHANGED <<otherVars, invocations, exitCode, books, supported, now, target, sidecars, idx,
                   fmt, currentFiles, run, hist>>

\* a failed enumeration that falls through to the cleanup with an empty kept set
EnumerateFail_cleansUp ==
    /\ pc = "enumerate"
    /\ result' = [result EXCEPT !.errors = Append(@, ErrorEntry(SystemBook, "system"))]
    /\ pc' = "cleanup"
    /\ UNCHANGED <<otherVars, invocations, exitCode, books, supported, now, target, sidecars, idx,
                   fmt, currentFiles, run, hist>>

\* getAllBooks or getCustomFields throws: main-sync.ts 136-140
EnumerateFail ==
    /\ pc = "enumerate"
    /\ result' = [result EXCEPT !.errors = Append(@, ErrorEntry(SystemBook, "system"))]
    /\ pc' = "close"
    /\ UNCHANGED <<otherVars, invocations, exitCode, books, supported, now, target, sidecars, idx, fmt, currentFiles,
                   run, hist>>

\* main-sync.ts 45-66: count the record and pick its format
ResolveFormat ==
    /\ pc = "record"
    /\ LET book == books[idx]
           preferredFormat == getPreferredFormat(book.formats)
       IN  IF preferredFormat = NoFormat
           THEN /\ result' = [result EXCEPT !.processed = @ + 1,
                                  !.errors = Append(@, ErrorEntry(book, "noformat"))]
                /\ hist' = Logged("noformat", book.id)
                /\ fmt' = NoFormat
                /\ NextRecord
           ELSE /\ result' = [result EXCEPT !.processed = @ + 1]
                /\ hist' = Logged("resolved", book.id)
                /\ fmt' = preferredFormat
                /\ pc' = "stale" /\ idx' = idx
    /\ UNCHANGED <<otherVars, invocations, exitCode, books, supported, now, target, sidecars, currentFiles, run>>

\* the name kept only for the records that are exported
CheckStale_keepOnlyStale ==
    /\ pc = "stale"
    /\ LET book == books[idx]
           filename == canonicalName(book, fmt)
           targetPath == targetPathOf(filename)
       IN  IF bookNeedsUpdate(book, targetPath)
           THEN /\ currentFiles' = currentFiles \cup {filename}
                /\ pc' = "export" /\ idx' = idx
                /\ hist' = Logged("stale", book.id)
           ELSE /\ currentFiles' = currentFiles
                /\ NextRecord
                /\ hist' = Logged("skipped", book.id)
    /\ UNCHANGED <<otherVars, invocations, exitCode, books, supported, now, target, sidecars, fmt, result, run>>

\* every record exported, whatever the staleness oracle answers
CheckStale_exportsAll ==
    /\ pc = "stale"
    /\ LET book == books[idx]
           filename == canonicalName(book, fmt)
       IN  /\ currentFiles' = currentFiles \cup {filename}
           /\ pc' = "export" /\ idx' = idx
           /\ hist' = Logged("stale", book.id)
    /\ UNCHANGED <<otherVars, invocations, exitCode, books, supported, now, target, sidecars, fmt, result, run>>

\* main-sync.ts 68-90: name the artifact, keep the name, ask the staleness oracle
CheckStale ==
    /\ pc = "stale"
    /\ LET book == books[idx]
           filename == canonicalName(book, fmt)
           targetPath == targetPathOf(filename)
       IN  /\ currentFiles' = currentFiles \cup {filename}
           /\ IF bookNeedsUpdate(book, targetPath)
              THEN /\ pc' = "export" /\ idx' = idx
                   /\ hist' = Logged("stale", book.id)
              ELSE /\ NextRecord
                   /\ hist' = Logged("skipped", book.id)
    /\ UNCHANGED <<otherVars, invocations, exitCode, books, supported, now, target, sidecars, fmt, result, run>>

\* main-sync.ts 93-108 with exportBook returning success
ExportOk ==
    /\ pc = "export"
    /\ LET book == books[idx]
           targetPath == targetPathOf(canonicalName(book, fmt))
       IN  /\ target' = exportBook(target, targetPath)
           /\ result' = [result EXCEPT !.updated = @ + 1]
           /\ hist' = Logged("exported", book.id)
    /\ pc' = "reconcile"
    /\ UNCHANGED <<otherVars, invocations, exitCode, books, supported, now, sidecars, idx, fmt, currentFiles, run>>

\* a failed export that lets the error leave the loop: the outer catch records
\* it and the run goes straight to the close
ExportFail_abort ==
    /\ pc = "export"
    /\ LET book == books[idx]
       IN  /\ result' = [result EXCEPT !.errors = Append(@, ErrorEntry(SystemBook, "system"))]
           /\ hist' = Logged("exportfailed", book.id)
    /\ pc' = "close"
    /\ UNCHANGED <<otherVars, invocations, exitCode, books, supported, now, target, sidecars, idx, fmt,
                   currentFiles, run>>

\* main-sync.ts 93-105 with exportBook returning success = false
ExportFail ==
    /\ pc = "export"
    /\ LET book == books[idx]
       IN  /\ result' = [result EXCEPT !.errors = Append(@, ErrorEntry(book, "export"))]
           /\ hist' = Logged("exportfailed", book.id)
    /\ NextRecord
    /\ UNCHANGED <<otherVars, invocations, exitCode, books, supported, now, target, sidecars, fmt, currentFiles, run>>

\* main-sync.ts 110-118: updateKOReaderMetadata for the exported record
Reconcile ==
    /\ pc = "reconcile"
    /\ LET book == books[idx]
           filename == canonicalName(book, fmt)
           sdrDirs == findSdrDirectories(sidecars, book.id)
       IN  \E order \in Orders(sdrDirs) :
             LET st == updateKOReaderMetadata(sidecars, order, targetPathOf(filename),
                                              filename)
             IN  /\ sidecars' = st.scs
                 /\ result' = [result EXCEPT !.koreaderUpdates =
                                   @ + (IF st.updated THEN 1 ELSE 0)]
                 /\ hist' = [hist EXCEPT !.log = Append(@, Event("reconciled", book.id)),
                                         !.renames = @ + st.renames,
                                         !.writes = @ + st.writes]
    /\ NextRecord
    /\ UNCHANGED <<otherVars, invocations, exitCode, books, supported, now, target, fmt, currentFiles, run>>

\* main-sync.ts 127-135: removeObsoleteFiles(syncTargetPath, currentFiles)
Cleanup ==
    /\ pc = "cleanup"
    /\ \E o \in removeObsoleteFiles(target, currentFiles) :
         /\ target' = target \ o.removed
         /\ hist' = [hist EXCEPT !.log = Append(@, Event("cleanup", NoId)),
                                 !.deleted = o.removed, !.failedAt = o.failedAt,
                                 !.kept = currentFiles, !.atCleanup = target,
                                 !.cleaned = TRUE]
    /\ pc' = "close"
    /\ UNCHANGED <<otherVars, invocations, exitCode, books, supported, now, sidecars, idx, fmt, currentFiles, result, run>>

\* main-sync.ts 141-145: the finally block closes the client, sync() returns
Close ==
    /\ pc = "close"
    /\ pc' = "report"
    /\ hist' = [hist EXCEPT !.log = Append(@, Event("closed", NoId)),
                            !.prev = [ran |-> TRUE, cleaned |-> hist.cleaned,
                                      errors |-> Len(result.errors),
                                      cleanupFailed |-> hist.failedAt # {},
                                      start |-> now, updated |-> result.updated,
                                      interrupted |-> NoId]]
    /\ UNCHANGED <<otherVars, invocations, exitCode, books, supported, now, target, sidecars, idx, fmt, currentFiles,
                   result, run>>

\* the command ending with status 1 when the result lists errors
Report_failOnErrors ==
    /\ pc = "report"
    /\ pc' = "idle"
    /\ exitCode' = IF Len(result.errors) > 0 THEN 1 ELSE 0
    /\ UNCHANGED <<otherVars, invocations, books, supported, now, target, sidecars, idx, fmt,
                   currentFiles, result, run, hist>>

\* cli.ts 41-58: sync() has returned; the command prints the counts and the
\* errors and ends, with status 0
Report ==
    /\ pc = "report"
    /\ pc' = "idle"
    /\ exitCode' = 0
    /\ UNCHANGED <<otherVars, invocations, books, supported, now, target, sidecars, idx, fmt,
                   currentFiles, result, run, hist>>

\* time passes between two runs
Tick ==
    /\ pc = "idle" /\ now < MaxTime /\ run < invocations
    /\ now' = now + 1
    /\ UNCHANGED <<otherVars, invocations, exitCode, books, supported, target, sidecars, pc, idx, fmt, currentFiles,
                   result, run, hist>>

\* ------------------------------------------------------- initial states
\* catalog rows: ids are unique and rows come in id order (GROUP BY b.id)
BookRows(i) ==
    [id : {i}, title : Titles, last_modified : Times, formats : FormatLists]
RECURSIVE CatalogsOf(_)
CatalogsOf(n) ==
    IF n = 0 THEN { <<>> }
    ELSE { Append(c, b) : c \in CatalogsOf(n - 1), b \in BookRows(n) }
Catalogs == UNION { CatalogsOf(n) : n \in 0..MaxBooks }

\* files that may lie in the target folder before the first run: old files
\* (time 0), in the root in either format, or in a subfolder
TargetUniverse ==
    { f \in [dir : Dirs, name : [base : Bases, id : {NoId} \cup Ids, ext : {".epub", ".pdf"}],
             mtime : {0}] :
        f.dir = "sub" => f.name.ext = ".epub" }

\* sidecar directories that may exist before the first run
InitDocs(id) == { Path("root", FileName(b, id, ".epub")) : b \in Bases }
SidecarUniverse ==
    { d \in [dir : {"root"}, name : [base : Bases, id : Ids, ext : {SdrExt}],
             kind : MetaKinds \ {"nofile"},
             doc : {NoPath} \cup UNION { InitDocs(i) : i \in Ids }] :
        /\ (d.kind = "key") <=> (d.doc # NoPath)
        /\ d.kind = "key" => d.doc \in InitDocs(d.name.id) }

UniquePaths(S) == \A x, y \in S : PathOf(x) = PathOf(y) => x = y
RECURSIVE UpTo(_, _)
UpTo(U, k) ==
    IF k = 0 THEN { {} }
    ELSE LET smaller == UpTo(U, k - 1)
         IN  smaller \cup { S \in { T \cup {x} : T \in smaller, x \in U } : UniquePaths(S) }

\* no updateDocPath call is under study
NoPatch == fileContent = <<>> /\ docPathArg = <<>> /\ patchedContent = <<>> /\ ppc = "none"

\* no function is called on its own
Pending == "pending"
NoCall == fnName = "none" /\ fnArg = <<>> /\ fnRet = Pending
\* the legacy fixer is not called
NoBackup == [state |-> "none", copy |-> {}]
ZeroFixHist(tree) ==
    [pre |-> tree, renames |-> 0, writes |-> 0, renameFailed |-> 0,
     updatedCount |-> 0, wouldUpdateCount |-> 0]
NoFix ==
    /\ epubDir = {} /\ docsettings = {} /\ fixDryRun = FALSE /\ fpc = "none"
    /\ epubFiles = <<>> /\ sidecarDirs = {} /\ backup = NoBackup
    /\ fixHist = ZeroFixHist({})
\* nothing but the sync command is under study
OthersIdle == NoPatch /\ NoCall /\ NoFix

Quiet ==
    /\ pc = "idle" /\ idx = 0 /\ fmt = NoFormat
    /\ currentFiles = {}
    /\ result = ZeroResult
    /\ run = 0
    /\ hist = [pre |-> {}, preSc |-> {}, log |-> <<>>, renames |-> 0, writes |-> 0,
               deleted |-> {}, failedAt |-> {}, kept |-> {}, atCleanup |-> {},
               cleaned |-> FALSE, prev |-> NoPrev]
    /\ exitCode = Running
    /\ OthersIdle

\* one invocation of the sync command
Init ==
    /\ books \in Catalogs
    /\ supported \in SupportedChoices
    /\ now = 0
    /\ target \in UpTo(TargetUniverse, MaxTargetFiles)
    /\ sidecars \in UpTo(SidecarUniverse, MaxSidecars)
    /\ 2 * Len(books) + Cardinality(target) + Cardinality(sidecars) <= MaxObjects
    /\ invocations = 1
    /\ dryRun = FALSE
    /\ Quiet

\* one invocation of the sync command with "dryRun": true in its configuration
InitDryRun ==
    /\ books \in Catalogs
    /\ supported \in SupportedChoices
    /\ now = 0
    /\ target \in UpTo(TargetUniverse, MaxTargetFiles)
    /\ sidecars \in UpTo(SidecarUniverse, MaxSidecars)
    /\ 2 * Len(books) + Cardinality(target) + Cardinality(sidecars) <= MaxObjects
    /\ invocations = 1
    /\ dryRun = TRUE
    /\ Quiet

\* the command invoked again and again, from a smaller scene
InitAgain ==
    /\ books \in Catalogs
    /\ supported \in SupportedChoices
    /\ now = 0
    /\ target \in UpTo(TargetUniverse, MaxTargetFiles)
    /\ sidecars \in UpTo(SidecarUniverse, MaxSidecars)
    /\ 2 * Len(books) + Cardinality(target) + Cardinality(sidecars) < MaxObjects
    /\ invocations = MaxRuns
    /\ dryRun = FALSE
    /\ Quiet

Next ==
    \/ StartRun \/ SetupFail \/ EnumerateOk \/ EnumerateFail
    \/ ResolveFormat \/ CheckStale \/ ExportOk \/ ExportFail \/ Reconcile
    \/ Cleanup \/ Close \/ Report \/ Tick

Spec == Init /\ [][Next]_vars

SpecDryRun == InitDryRun /\ [][Next]_vars

SpecAgain == InitAgain /\ [][Next]_vars

\* ------------------------------------------- the run over duplicate sidecars
\* one record, an empty target folder, and up to MaxDuplicates sidecar
\* directories that carry the record's id, in the root or in a subfolder
MaxDuplicates == 3
DuplicateUniverse ==
    { d \in [dir : Dirs, name : [base : Bases, id : {1}, ext : {SdrExt}],
             kind : MetaKinds \ {"nofile"},
             doc : {NoPath} \cup InitDocs(1)] :
        (d.kind = "key") <=> (d.doc # NoPath) }
InitSidecars ==
    /\ books \in CatalogsOf(1)
    /\ supported \in SupportedChoices
    /\ now = 0
    /\ target = {}
    /\ sidecars \in UpTo(DuplicateUniverse, MaxDuplicates)
    /\ invocations = 1
    /\ dryRun = FALSE
    /\ Quiet

SpecSidecars == InitSidecars /\ [][Next]_vars

\* ------------------------------- the run over sidecars of several records
\* One record, and up to MaxNeighbours sidecar directories that bear its id or
\* the id of another record.
MaxNeighbours == 2
InitNeighbours ==
    /\ books \in CatalogsOf(1)
    /\ supported \in SupportedChoices
    /\ now = 0
    /\ target = {}
    /\ sidecars \in UpTo(SidecarUniverse, MaxNeighbours)
    /\ invocations = 1
    /\ dryRun = FALSE
    /\ Quiet

SpecNeighbours == InitNeighbours /\ [][Next]_vars

\* ------------------------------------------- the run with thrown exceptions
\* an exception thrown while a record is processed that leaves the loop
RecordThrows_escapes ==
    /\ pc = "record"
    /\ LET book == books[idx]
       IN  /\ result' = [result EXCEPT !.processed = @ + 1,
                                       !.errors = Append(@, ErrorEntry(book, "exception"))]
           /\ hist' = Logged("threw", book.id)
    /\ pc' = "close"
    /\ UNCHANGED <<otherVars, invocations, exitCode, books, supported, now, target, sidecars,
                   idx, fmt, currentFiles, run>>

\* main-sync.ts 45-58 and 119-124: the record is counted, then a statement of
\* the try block throws; the catch records the error under the record and the
\* loop goes on
RecordThrows ==
    /\ pc = "record"
    /\ LET book == books[idx]
       IN  /\ result' = [result EXCEPT !.processed = @ + 1,
                                       !.errors = Append(@, ErrorEntry(book, "exception"))]
           /\ hist' = Logged("threw", book.id)
    /\ NextRecord
    /\ UNCHANGED <<otherVars, invocations, exitCode, books, supported, now, target, sidecars,
                   fmt, currentFiles, run>>

NextLive == Next \/ RecordThrows

\* every await of sync() settles: a step that can be taken is taken
SpecLive == Init /\ [][NextLive]_vars /\ WF_vars(NextLive)

\* ------------------------------------------------- cleanup on its own
\* removeObsoleteFiles called on any folder of up to MaxCleanupFiles files,
\* with any kept set over the names found there
InitCleanup ==
    /\ books = <<>>
    /\ supported \in SupportedChoices
    /\ now = 0
    /\ target \in UpTo(TargetUniverse, MaxCleanupFiles)
    /\ sidecars = {}
    /\ pc = "cleanup" /\ idx = 0 /\ fmt = NoFormat
    /\ currentFiles \in SUBSET { f.name : f \in target }
    /\ result = ZeroResult
    /\ run = 1 /\ invocations = 1
    /\ dryRun = FALSE /\ exitCode = Running
    /\ hist = [pre |-> target, preSc |-> {}, log |-> <<>>, renames |-> 0, writes |-> 0,
               deleted |-> {}, failedAt |-> {}, kept |-> {}, atCleanup |-> {},
               cleaned |-> FALSE, prev |-> NoPrev]
    /\ OthersIdle

NextCleanup == Cleanup \/ Close

SpecCleanup == InitCleanup /\ [][NextCleanup]_vars

\* ------------------------------------------- updateDocPath on its own
\* Location files with a doc_path assignment: what precedes it, the spaces
\* around the = sign, the old value, and what follows the closing quote
OtherKey == <<"[", Quote, "p", Quote, "]", " ", "=", " ", Quote, "v", Quote, ",", "\n">>
Pres == { <<>>,
          ReturnMarker \o <<"\n">>,
          ReturnMarker \o <<"\n", " ", " ">>,
          <<"-", "-", "\n">> \o ReturnMarker \o <<"\n">> \o OtherKey \o <<" ">> }
Gaps == { <<>>, <<" ">> }
Olds == { <<"o">>, <<"/", "o", "/", "X">>, <<"$", "1">> }
Posts == { <<>>, <<",">>, <<",", "\n", "}", "\n">>,
           <<",", "\n">> \o OtherKey \o <<"}">> }
UpToOpenQuote(pre, g1, g2) == pre \o DocPathKey \o g1 \o <<"=">> \o g2 \o <<Quote>>
FromCloseQuote(post) == <<Quote>> \o post
WithKey(pre, g1, g2, old, post) == UpToOpenQuote(pre, g1, g2) \o old \o FromCloseQuote(post)
ContentsWithKey ==
    { WithKey(pre, g1, g2, old, post) :
        pre \in Pres, g1 \in Gaps, g2 \in Gaps, old \in Olds, post \in Posts }
\* Location files without a doc_path assignment
ContentsWithoutKey ==
    { <<>>, <<"x">>, OtherKey, ReturnMarker, ReturnMarker \o <<"}">>,
      ReturnMarker \o <<"\n">> \o OtherKey \o <<"}">>,
      <<"-", "-", "\n">> \o ReturnMarker \o <<"\n", "}", "\n">>,
      ReturnMarker \o <<"\n">> \o DocPathKey \o <<" ", "=", " ", Quote, Quote, ",", "\n", "}">> }
\* Target paths: a file name of up to MaxPathLen characters a title can put
\* into it, under the root, with the extension of the format
PathChars == { "a", "$", "&", "1" }
RECURSIVE PathsOfLen(_)
PathsOfLen(n) ==
    IF n = 0 THEN { <<>> }
    ELSE { <<c>> \o q : c \in PathChars, q \in PathsOfLen(n - 1) }
EpubSuffix == <<".", "e", "p", "u", "b">>
NewPaths == { <<"/">> \o q \o EpubSuffix : q \in UNION { PathsOfLen(n) : n \in 1..MaxPathLen } }

\* no sync command is invoked
SyncIdle ==
    /\ books = <<>>
    /\ now = 0
    /\ target = {} /\ sidecars = {}
    /\ pc = "idle" /\ idx = 0 /\ fmt = NoFormat
    /\ currentFiles = {}
    /\ result = ZeroResult
    /\ run = 0 /\ invocations = 0
    /\ dryRun = FALSE /\ exitCode = Running
    /\ hist = [pre |-> {}, preSc |-> {}, log |-> <<>>, renames |-> 0, writes |-> 0,
               deleted |-> {}, failedAt |-> {}, kept |-> {}, atCleanup |-> {},
               cleaned |-> FALSE, prev |-> NoPrev]

InitPatch ==
    /\ SyncIdle
    /\ supported = {".epub"}
    /\ fileContent \in ContentsWithKey \cup ContentsWithoutKey
    /\ docPathArg \in NewPaths
    /\ patchedContent = <<>>
    /\ ppc = "call"
    /\ NoCall
    /\ NoFix

\* one call of updateDocPath(fileContent, docPathArg)
PatchCall ==
    /\ ppc = "call"
    /\ patchedContent' = updateDocPath(fileContent, docPathArg)
    /\ ppc' = "done"
    /\ UNCHANGED <<fileContent, docPathArg, syncVars, pureVars, fixVars>>

NextPatch == PatchCall

SpecPatch == InitPatch /\ [][NextPatch]_vars

\* ------------------------------------- the id extractors, character by character
\* what an extractor returns: null, a number, or a string of digits
Null == [t |-> "null"]
Num(n) == [t |-> "number", v |-> n]
Str(d) == [t |-> "string", v |-> d]
\* \d+ from position i: the first position that holds no digit
RECURSIVE skipDigits(_, _)
skipDigits(s, i) == IF i <= Len(s) /\ isDigit(s[i]) THEN skipDigits(s, i + 1) ELSE i
\* parseInt(digits, 10)
RECURSIVE parseInt(_)
parseInt(d) ==
    IF d = <<>> THEN 0
    ELSE 10 * parseInt(SubSeq(d, 1, Len(d) - 1)) + digitValue(d[Len(d)])
\* what the three regular expressions ask for between the ")" and the end:
\*   "ext"       \.[^.]+$          (extractIdFromFilename)
\*   "sdr"       \.sdr$            (extractIdFromSdrName)
\*   "epubOrSdr" \.(?:epub|sdr)$   (extractId)
DotSdr == <<".", "s", "d", "r">>
DotEpub == <<".", "e", "p", "u", "b">>
tailMatches(rest, kind) ==
    CASE kind = "sdr" -> rest = DotSdr
      [] kind = "epubOrSdr" -> rest \in { DotEpub, DotSdr }
      [] OTHER -> /\ Len(rest) >= 2 /\ rest[1] = "."
                  /\ \A k \in 2..Len(rest) : rest[k] # "."
\* the leftmost match of /\((\d+)\)<tail>$/ in s: its group 1, <<>> when
\* there is no match
idMatch(s, kind) ==
    LET ok(i) == LET j == skipDigits(s, i + 1)
                 IN  /\ s[i] = "(" /\ j > i + 1 /\ j <= Len(s) /\ s[j] = ")"
                     /\ tailMatches(SubSeq(s, j + 1, Len(s)), kind)
        starts == { i \in 1..Len(s) : ok(i) }
        i0 == CHOOSE i \in starts : \A k \in starts : i <= k
    IN  IF starts = {} THEN <<>> ELSE SubSeq(s, i0 + 1, skipDigits(s, i0 + 1) - 1)

\* extractIdFromFilename with a pattern that is not tied to the end of the
\* name: the first parenthesized run of digits wins
extractIdFromFilename_firstGroup(filename) ==
    LET ok(i) == LET j == skipDigits(filename, i + 1)
                 IN  /\ filename[i] = "(" /\ j > i + 1 /\ j <= Len(filename)
                     /\ filename[j] = ")"
        starts == { i \in 1..Len(filename) : ok(i) }
        i0 == CHOOSE i \in starts : \A k \in starts : i <= k
    IN  IF starts = {} THEN Null
        ELSE Num(parseInt(SubSeq(filename, i0 + 1, skipDigits(filename, i0 + 1) - 1)))

\* FileOperations.extractIdFromFilename
extractIdFromFilename(filename) ==
    LET g == idMatch(filename, "ext") IN IF g = <<>> THEN Null ELSE Num(parseInt(g))
\* KOReaderManager.extractIdFromSdrName on the characters of the name
extractIdFromSdrNameChars(sdrName) ==
    LET g == idMatch(sdrName, "sdr") IN IF g = <<>> THEN Null ELSE Num(parseInt(g))
\* extractId of the legacy fixer: match?.[1] ?? null, the captured string
extractId(filename) ==
    LET g == idMatch(filename, "epubOrSdr") IN IF g = <<>> THEN Null ELSE Str(g)

\* names: up to MaxNameLen characters followed by one of the endings
NameChars == { "a", "(", ")", "0", "7" }
RECURSIVE SeqsUpTo(_, _)
SeqsUpTo(S, n) ==
    IF n = 0 THEN { <<>> }
    ELSE LET shorter == SeqsUpTo(S, n - 1)
         IN  shorter \cup { q \o <<c>> : q \in { r \in shorter : Len(r) = n - 1 }, c \in S }
NameEndings == { <<>>, DotEpub, DotSdr, <<".", "p", "d", "f">>, DotSdr \o DotEpub }
Names == { q \o e : q \in SeqsUpTo(NameChars, MaxNameLen), e \in NameEndings }

InitExtract ==
    /\ SyncIdle
    /\ supported = {".epub"}
    /\ NoPatch
    /\ NoFix
    /\ fnName = "extractor"
    /\ fnArg \in Names
    /\ fnRet = Pending

CallExtractIdFromFilename ==
    /\ fnName = "extractor" /\ fnRet = Pending
    /\ fnName' = "extractIdFromFilename"
    /\ fnRet' = extractIdFromFilename(fnArg)
    /\ UNCHANGED <<fnArg, syncVars, patchVars, fixVars>>
CallExtractIdFromSdrName ==
    /\ fnName = "extractor" /\ fnRet = Pending
    /\ fnName' = "extractIdFromSdrName"
    /\ fnRet' = extractIdFromSdrNameChars(fnArg)
    /\ UNCHANGED <<fnArg, syncVars, patchVars, fixVars>>
CallExtractId ==
    /\ fnName = "extractor" /\ fnRet = Pending
    /\ fnName' = "extractId"
    /\ fnRet' = extractId(fnArg)
    /\ UNCHANGED <<fnArg, syncVars, patchVars, fixVars>>

NextExtract == CallExtractIdFromFilename \/ CallExtractIdFromSdrName \/ CallExtractId

SpecExtract == InitExtract /\ [][NextExtract]_vars

\* ---------------------------------------- getPreferredFormat on its own
\* the lists of up to MaxFormats distinct formats (GROUP_CONCAT(DISTINCT ...))
FormatUniverse == { "EPUB", "CBZ", "PDF", "MOBI", "DJVU", "TXT" }
RECURSIVE DistinctLists(_, _)
DistinctLists(S, n) ==
    IF n = 0 THEN { <<>> }
    ELSE { <<>> } \cup UNION { { <<x>> \o l : l \in { m \in DistinctLists(S, n - 1) : x \notin Range(m) } } :
                               x \in S }
SupportedUniverse ==
    { {".epub", ".pdf", ".djvu"}, {".epub"}, {".epub", ".cbz", ".pdf"}, {".djvu", ".mobi"},
      {".epub", ".djvu", ".txt"} }

InitFormat ==
    /\ SyncIdle
    /\ supported \in SupportedUniverse
    /\ NoPatch
    /\ NoFix
    /\ fnName = "getPreferredFormat"
    /\ fnArg \in DistinctLists(FormatUniverse, MaxFormats)
    /\ fnRet = Pending

\* one call of getPreferredFormat(fnArg)
CallGetPreferredFormat ==
    /\ fnName = "getPreferredFormat" /\ fnRet = Pending
    /\ fnRet' = getPreferredFormat(fnArg)
    /\ UNCHANGED <<fnName, fnArg, syncVars, patchVars, fixVars>>

NextFormat == CallGetPreferredFormat

SpecFormat == InitFormat /\ [][NextFormat]_vars

\* ------------------------------------------- the legacy fixer (koreader-fixer)
MaxEpubs == 2
MaxDocsettings == 2

\* String.endsWith, and String.replace with a string pattern: the first
\* occurrence only
endsWith(s, w) == Len(w) <= Len(s) /\ HasAt(s, Len(s) - Len(w) + 1, w)
replaceString(s, w, r) ==
    LET i == indexOf(s, w)
    IN  IF i < 0 THEN s ELSE SubSeq(s, 1, i) \o r \o SubSeq(s, i + Len(w) + 1, Len(s))

\* generateNewFilename: /^[^-]+ - (.+)$/ can only match around the first
\* hyphen of the name
generateNewFilename(epubFilename) ==
    LET p == indexOf(epubFilename, <<"-">>) + 1
    IN  IF /\ p >= 3 /\ HasAt(epubFilename, p - 1, <<" ", "-", " ">>)
           /\ p + 2 <= Len(epubFilename)
        THEN SubSeq(epubFilename, p + 2, Len(epubFilename))
        ELSE epubFilename

\* metadata.epub.lua of a sidecar directory: absent, without a doc_path
\* assignment, or with one
NoMetadata == [t |-> "absent"]
NoDocPath == [t |-> "nokey"]
DocPath(v) == [t |-> "doc_path", v |-> v]
\* a directory of the docsettings tree
SidecarEntry(dir, name, meta) == [dir |-> dir, name |-> name, meta |-> meta]
\* path.join(epubDir, file)
fullPathOf(filename) == <<"/", "e", "/">> \o filename

\* updateMetadataDocPath that writes in a dry run too
updateMetadataDocPath_ignoreDry(meta, newDocPath, dry) ==
    IF meta.t = "doc_path" /\ meta.v # <<>> /\ meta.v # newDocPath
    THEN DocPath(newDocPath)
    ELSE meta

\* updateMetadataDocPath: the file content it leaves
updateMetadataDocPath(meta, newDocPath, dry) ==
    IF meta.t = "doc_path" /\ meta.v # <<>> /\ meta.v # newDocPath /\ ~dry
    THEN DocPath(newDocPath)
    ELSE meta

\* scanEpubFiles and scanSidecarDirs
scanEpubFiles(files) ==
    { [filename |-> f, id |-> extractId(f)] :
        f \in { g \in files : endsWith(g, DotEpub) /\ extractId(g) # Null } }
scanSidecarDirs(tree) ==
    { [dirName |-> d.name, dir |-> d.dir, id |-> extractId(d.name)] :
        d \in { e \in tree : /\ endsWith(e.name, DotSdr) /\ extractId(e.name) # Null
                             /\ e.meta # NoMetadata } }

\* epubFiles.find(epub => epub.id === sidecar.id)
NoEpub == [filename |-> <<>>, id |-> Null]
find(list, id) ==
    LET hits == { i \in DOMAIN list : list[i].id = id }
    IN  IF hits = {} THEN NoEpub ELSE list[CHOOSE i \in hits : \A j \in hits : i <= j]

currentSidecarName(sc) == replaceString(sc.dirName, DotSdr, <<>>)
cleanedEpubName(e) == replaceString(generateNewFilename(e.filename), DotEpub, <<>>)
newSidecarName(e) == cleanedEpubName(e) \o DotSdr
\* the rename of line 259 is attempted
renames(sc, e, dry) == e # NoEpub /\ currentSidecarName(sc) # cleanedEpubName(e) /\ ~dry
\* fs.rename of a directory succeeds onto a free name or onto an empty
\* directory, which it replaces; a directory that holds a metadata file is
\* not empty
canRename(tree, sc, e) ==
    \A d \in tree : (d.dir = sc.dir /\ d.name = newSidecarName(e)) => d.meta = NoMetadata
entryAt(tree, dir, name) == CHOOSE d \in tree : d.dir = dir /\ d.name = name
rename(tree, sc, newName) ==
    { d \in tree : ~(d.dir = sc.dir /\ d.name \in { sc.dirName, newName }) }
        \cup { [entryAt(tree, sc.dir, sc.dirName) EXCEPT !.name = newName] }
\* the tree and the entry of the sidecar after the rename step of one iteration
afterRename(tree, sc, e, dry) ==
    IF renames(sc, e, dry) THEN rename(tree, sc, newSidecarName(e)) ELSE tree
nameAfterRename(sc, e, dry) ==
    IF renames(sc, e, dry) THEN newSidecarName(e) ELSE sc.dirName

\* createBackup in a dry run: logs and returns
CreateBackupDry ==
    /\ fpc = "backup" /\ fixDryRun
    /\ fpc' = "scan"
    /\ UNCHANGED <<epubDir, docsettings, fixDryRun, epubFiles, sidecarDirs, backup, fixHist,
                   syncVars, patchVars, pureVars>>
\* createBackup copies the whole docsettings directory
CreateBackupOk ==
    /\ fpc = "backup" /\ ~fixDryRun
    /\ backup' = [state |-> "complete", copy |-> docsettings]
    /\ fpc' = "scan"
    /\ UNCHANGED <<epubDir, docsettings, fixDryRun, epubFiles, sidecarDirs, fixHist,
                   syncVars, patchVars, pureVars>>
\* createBackup that fails and lets the fixer go on
CreateBackupFail_continue ==
    /\ fpc = "backup" /\ ~fixDryRun
    /\ \E part \in SUBSET docsettings : backup' = [state |-> "partial", copy |-> part]
    /\ fpc' = "scan"
    /\ UNCHANGED <<epubDir, docsettings, fixDryRun, epubFiles, sidecarDirs, fixHist,
                   syncVars, patchVars, pureVars>>
\* mkdir or a copy fails: the error leaves fixKoReaderMetadata, some of the
\* tree may have been copied
CreateBackupFail ==
    /\ fpc = "backup" /\ ~fixDryRun
    /\ \E part \in SUBSET docsettings : backup' = [state |-> "partial", copy |-> part]
    /\ fpc' = "failed"
    /\ UNCHANGED <<epubDir, docsettings, fixDryRun, epubFiles, sidecarDirs, fixHist,
                   syncVars, patchVars, pureVars>>

\* the two scans and the two early returns; readdir lists the epub files in
\* any order
ScanDirs ==
    /\ fpc = "scan"
    /\ \E order \in Orders(scanEpubFiles(epubDir)) : epubFiles' = order
    /\ sidecarDirs' = scanSidecarDirs(docsettings)
    /\ fpc' = IF scanEpubFiles(epubDir) = {} \/ scanSidecarDirs(docsettings) = {}
              THEN "done" ELSE "loop"
    /\ UNCHANGED <<epubDir, docsettings, fixDryRun, backup, fixHist,
                   syncVars, patchVars, pureVars>>

\* one iteration of the loop in which nothing fails
ProcessSidecar ==
    /\ fpc = "loop"
    /\ \E sc \in sidecarDirs :
        LET e == find(epubFiles, sc.id)
            tree == afterRename(docsettings, sc, e, fixDryRun)
            entry == entryAt(tree, sc.dir, nameAfterRename(sc, e, fixDryRun))
            meta == updateMetadataDocPath(entry.meta, fullPathOf(e.filename), fixDryRun)
        IN  /\ renames(sc, e, fixDryRun) => canRename(docsettings, sc, e)
            /\ sidecarDirs' = sidecarDirs \ {sc}
            /\ docsettings' = IF e = NoEpub THEN docsettings
                              ELSE (tree \ {entry}) \cup { [entry EXCEPT !.meta = meta] }
            /\ fixHist' = IF e = NoEpub THEN fixHist
                          ELSE [fixHist EXCEPT
                                  !.renames = @ + (IF renames(sc, e, fixDryRun) THEN 1 ELSE 0),
                                  !.writes = @ + (IF meta # entry.meta THEN 1 ELSE 0),
                                  !.updatedCount = @ + (IF fixDryRun THEN 0 ELSE 1),
                                  !.wouldUpdateCount = @ + (IF fixDryRun THEN 1 ELSE 0)]
    /\ UNCHANGED <<epubDir, fixDryRun, fpc, epubFiles, backup, syncVars, patchVars, pureVars>>
\* the rename fails: the error is logged and the loop goes to the next sidecar
RenameFail ==
    /\ fpc = "loop"
    /\ \E sc \in sidecarDirs :
        /\ renames(sc, find(epubFiles, sc.id), fixDryRun)
        /\ sidecarDirs' = sidecarDirs \ {sc}
    /\ fixHist' = [fixHist EXCEPT !.renameFailed = @ + 1]
    /\ UNCHANGED <<epubDir, docsettings, fixDryRun, fpc, epubFiles, backup,
                   syncVars, patchVars, pureVars>>
\* writeFile fails after the rename step: the error leaves fixKoReaderMetadata
WriteFail ==
    /\ fpc = "loop"
    /\ \E sc \in sidecarDirs :
        LET e == find(epubFiles, sc.id)
            tree == afterRename(docsettings, sc, e, fixDryRun)
            entry == entryAt(tree, sc.dir, nameAfterRename(sc, e, fixDryRun))
        IN  /\ e # NoEpub
            /\ renames(sc, e, fixDryRun) => canRename(docsettings, sc, e)
            /\ updateMetadataDocPath(entry.meta, fullPathOf(e.filename), fixDryRun) # entry.meta
            /\ sidecarDirs' = sidecarDirs \ {sc}
            /\ docsettings' = tree
            /\ fixHist' = [fixHist EXCEPT
                             !.renames = @ + (IF renames(sc, e, fixDryRun) THEN 1 ELSE 0)]
    /\ fpc' = "failed"
    /\ UNCHANGED <<epubDir, fixDryRun, epubFiles, backup, syncVars, patchVars, pureVars>>
\* the loop is over: the summary is printed
Summary ==
    /\ fpc = "loop" /\ sidecarDirs = {}
    /\ fpc' = "done"
    /\ UNCHANGED <<epubDir, docsettings, fixDryRun, epubFiles, sidecarDirs, backup, fixHist,
                   syncVars, patchVars, pureVars>>

\* the names found in the two directories: "A (1)", "N - A (2)", ... with
\* and without a category prefix, and one name without an id
Prefixes == { <<>>, <<"N", " ", "-", " ">> }
IdTags == { <<" ", "(", "1", ")">>, <<" ", "(", "2", ")">> }
Stems == { p \o <<"A">> \o t : p \in Prefixes, t \in IdTags } \cup { <<"A">> }
EpubNames == { n \o DotEpub : n \in Stems }
SdrNames == { n \o DotSdr : n \in Stems }
Metadatas ==
    { NoMetadata, NoDocPath, DocPath(<<"o">>),
      DocPath(fullPathOf(<<"A", " ", "(", "1", ")">> \o DotEpub)) }
TreeUniverse ==
    { SidecarEntry(d, n, mt) : d \in {"root", "sub"}, n \in SdrNames, mt \in Metadatas }
RECURSIVE AtMost(_, _)
AtMost(U, k) ==
    IF k = 0 THEN { {} }
    ELSE LET smaller == AtMost(U, k - 1)
         IN  smaller \cup { T \cup {x} : T \in smaller, x \in U }
Trees ==
    { S \in AtMost(TreeUniverse, MaxDocsettings) :
        \A x, y \in S : (x.dir = y.dir /\ x.name = y.name) => x = y }

\* one call of fixKoReaderMetadata(epubDir, docsettingsDir, verbose, fixDryRun)
InitFixer ==
    /\ SyncIdle
    /\ supported = {".epub"}
    /\ NoPatch
    /\ NoCall
    /\ epubDir \in AtMost(EpubNames, MaxEpubs)
    /\ docsettings \in Trees
    /\ fixDryRun \in BOOLEAN
    /\ fpc = "backup"
    /\ epubFiles = <<>> /\ sidecarDirs = {}
    /\ backup = NoBackup
    /\ fixHist = ZeroFixHist(docsettings)

NextFixer ==
    \/ CreateBackupDry \/ CreateBackupOk \/ CreateBackupFail
    \/ ScanDirs \/ ProcessSidecar \/ RenameFail \/ WriteFail \/ Summary

SpecFixer == InitFixer /\ [][NextFixer]_vars

\* ------------------------------- findSdrDirectories over a directory tree
\* A tree is a set of entries below the sidecar root; the path of an entry is
\* the sequence of the names that lead to it, a name a sequence of characters.
MaxDepth == 3
MaxEntries == 3
SdrTreeNames ==
    { <<"d">>, <<"(", "1", ")">> \o DotSdr, <<"(", "2", ")">> \o DotSdr, <<"x">> \o DotSdr }
\* Dirent kinds: a file (or anything isDirectory() denies), a directory, and a
\* directory that readdir cannot read
EntryKinds == { "file", "dir", "unreadable" }
Entry(path, kind) == [path |-> path, kind |-> kind]
dirname(path) == SubSeq(path, 1, Len(path) - 1)
basename(path) == path[Len(path)]
ParentsIn(T) ==
    { <<>> } \cup { e.path : e \in { x \in T : x.kind # "file" /\ Len(x.path) < MaxDepth } }
RECURSIVE SdrTrees(_)
SdrTrees(k) ==
    IF k = 0 THEN { {} }
    ELSE LET smaller == SdrTrees(k - 1)
         IN  smaller \cup
             UNION { { T \cup { Entry(q \o <<n>>, kd) } :
                         q \in ParentsIn(T), n \in SdrTreeNames, kd \in EntryKinds } :
                     T \in smaller }
UniqueEntries(T) == \A x, y \in T : x.path = y.path => x = y

\* fs.readdir(dir, { withFileTypes: true })
readdir(tree, dir) ==
    { e \in tree : Len(e.path) = Len(dir) + 1 /\ dirname(e.path) = dir }

\* a search that also descends into the .sdr directories
descends_intoSdr(e) == e.kind # "file"

\* searchSdrDirectories, the else branch: a directory that is searched in turn
descends(e) == e.kind # "file" /\ ~endsWith(basename(e.path), DotSdr)

\* KOReaderManager.searchSdrDirectories: the paths pushed to results
RECURSIVE searchSdrDirectories(_, _, _, _)
searchSdrDirectories(tree, dir, readable, bookId) ==
    IF ~readable THEN {}
    ELSE UNION { (IF /\ e.kind # "file"
                     /\ endsWith(basename(e.path), DotSdr)
                     /\ extractIdFromSdrNameChars(basename(e.path)) = Num(bookId)
                  THEN { e.path } ELSE {})
                 \cup
                 (IF descends(e)
                  THEN searchSdrDirectories(tree, e.path, e.kind = "dir", bookId)
                  ELSE {}) :
                 e \in readdir(tree, dir) }

\* KOReaderManager.findSdrDirectories
findSdrDirectoriesIn(tree, rootReadable, bookId) ==
    searchSdrDirectories(tree, <<>>, rootReadable, bookId)

InitSearch ==
    /\ SyncIdle
    /\ supported = {".epub"}
    /\ NoPatch
    /\ NoFix
    /\ fnName = "searcher"
    /\ fnArg \in [tree : { T \in SdrTrees(MaxEntries) : UniqueEntries(T) },
                   rootReadable : BOOLEAN, bookId : Ids]
    /\ fnRet = Pending

CallFindSdrDirectories ==
    /\ fnName = "searcher" /\ fnRet = Pending
    /\ fnName' = "findSdrDirectories"
    /\ fnRet' = findSdrDirectoriesIn(fnArg.tree, fnArg.rootReadable, fnArg.bookId)
    /\ UNCHANGED <<fnArg, syncVars, patchVars, fixVars>>

NextSearch == CallFindSdrDirectories

SpecSearch == InitSearch /\ [][NextSearch]_vars

\* ----------------------------- building a name and reading its id back
MaxBaseLen == 3
\* `${id}` for a positive integer: its decimal digits
RECURSIVE numberToString(_)
numberToString(n) ==
    IF n < 10 THEN <<Digits[n + 1]>>
    ELSE numberToString(n \div 10) \o <<Digits[(n % 10) + 1]>>

\* FileOperations.buildFilenameWithId on the characters of its arguments
buildFilenameWithIdChars(baseName, id, extension) ==
    LET ext == IF Len(extension) > 0 /\ extension[1] = "." THEN extension
               ELSE <<".">> \o extension
    IN  baseName \o <<" ", "(">> \o numberToString(id) \o <<")">> \o ext

\* an extension taken from the first dot of the name
extname_firstDot(p) ==
    LET dots == { i \in 1..Len(p) : p[i] = "." }
        i0 == CHOOSE i \in dots : \A k \in dots : i <= k
    IN  IF dots = {} \/ i0 = 1 THEN <<>> ELSE SubSeq(p, i0, Len(p))

\* path.extname (POSIX) of a path that does not end with a separator: from the
\* last dot of the last component to the end, nothing when there is no dot or
\* the dot opens the component
extname(p) ==
    LET slashes == { i \in 1..Len(p) : p[i] = "/" }
        start == IF slashes = {} THEN 1
                 ELSE (CHOOSE i \in slashes : \A k \in slashes : k <= i) + 1
        dots == { i \in start..Len(p) : p[i] = "." }
        i0 == CHOOSE i \in dots : \A k \in dots : k <= i
    IN  IF dots = {} \/ i0 = start THEN <<>>
        ELSE IF i0 = start + 1 /\ p[start] = "." /\ i0 = Len(p) THEN <<>>
        ELSE SubSeq(p, i0, Len(p))

\* KOReaderManager.buildSdrNameFromFilename on the characters of the name
buildSdrNameFromFilenameChars(filename) ==
    LET extension == extname(filename)
        baseName == substring(filename, 0, Len(filename) - Len(extension))
    IN  baseName \o DotSdr

BaseChars == { "a", "(", ")", "7", ".", " " }
RoundTripIds == { 1, 9, 10, 120 }
ExtensionUniverse ==
    { DotEpub, <<".", "p", "d", "f">>, <<"e", "p", "u", "b">>, <<".", "c", "b", "7">> }

InitRoundTrip ==
    /\ SyncIdle
    /\ supported = {".epub"}
    /\ NoPatch
    /\ NoFix
    /\ fnName = "builder"
    /\ fnArg \in [baseName : SeqsUpTo(BaseChars, MaxBaseLen), id : RoundTripIds,
                   extension : ExtensionUniverse]
    /\ fnRet = Pending

\* the name sync() builds for a record, the sidecar name the reconciler
\* derives from it, and the ids read back from both
CallBuildAndExtract ==
    /\ fnName = "builder" /\ fnRet = Pending
    /\ fnName' = "roundTrip"
    /\ LET filename == buildFilenameWithIdChars(fnArg.baseName, fnArg.id, fnArg.extension)
           sdrName == buildSdrNameFromFilenameChars(filename)
       IN  fnRet' = [filename |-> filename,
                     fileId |-> extractIdFromFilename(filename),
                     sdrName |-> sdrName,
                     sdrId |-> extractIdFromSdrNameChars(sdrName)]
    /\ UNCHANGED <<fnArg, syncVars, patchVars, fixVars>>

NextRoundTrip == CallBuildAndExtract

SpecRoundTrip == InitRoundTrip /\ [][NextRoundTrip]_vars

\* ------------------------------------------- copyBookFile on its own
\* What fs.stat sees at a path: nothing, or a file with its modification time
\* and its content ("partial" for a copy that was cut short).
NoFile == [exists |-> FALSE, mtime |-> 0, content |-> "none"]
File(mtime, content) == [exists |-> TRUE, mtime |-> mtime, content |-> content]
CopyResult(success, error, targetFile) ==
    [success |-> success, error |-> error, target |-> targetFile]

\* FileOperations.shouldCopyFile; a source that cannot be read answers false
shouldCopyFile(source, targetFile) ==
    IF ~source.exists THEN FALSE
    ELSE IF ~targetFile.exists THEN TRUE
    ELSE source.mtime > targetFile.mtime

\* FileOperations.copyBookFile: the results it can return, each with the file
\* it leaves at targetPath.  io tells which of mkdir, copyFile and utimes fail,
\* and the time of the clock.
copyBookFile(source, targetFile, io) ==
    IF ~io.mkdir THEN { CopyResult(FALSE, "mkdir", targetFile) }
    ELSE IF ~shouldCopyFile(source, targetFile)
         THEN { CopyResult(TRUE, "File is up to date", targetFile) }
    ELSE IF ~io.copyFile
         THEN { CopyResult(FALSE, "copyFile", targetFile),
                CopyResult(FALSE, "copyFile", File(io.clock, "partial")) }
    ELSE IF ~io.utimes
         THEN { CopyResult(FALSE, "utimes", File(io.clock, source.content)) }
    ELSE { CopyResult(TRUE, "", File(source.mtime, source.content)) }

CopyClock == MaxTime + 1
InitCopy ==
    /\ SyncIdle
    /\ supported = {".epub"}
    /\ NoPatch
    /\ NoFix
    /\ fnName = "copier"
    /\ fnArg \in [source : { NoFile } \cup { File(t, "book") : t \in Times },
                   target : { NoFile } \cup { File(t, c) : t \in Times, c \in {"book", "old"} },
                   io : [mkdir : BOOLEAN, copyFile : BOOLEAN, utimes : BOOLEAN,
                         clock : { CopyClock }]]
    /\ fnRet = Pending

CallCopyBookFile ==
    /\ fnName = "copier" /\ fnRet = Pending
    /\ fnName' = "copyBookFile"
    /\ fnRet' \in copyBookFile(fnArg.source, fnArg.target, fnArg.io)
    /\ UNCHANGED <<fnArg, syncVars, patchVars, fixVars>>

NextCopy == CallCopyBookFile

SpecCopy == InitCopy /\ [][NextCopy]_vars

\* ------------------------------------------- exportBook on its own
\* What one call of exportBook returns and leaves behind: the file at
\* outputPath and whether the temporary directory still exists.  io tells what
\* the environment does: whether mkdtemp, mkdir, rename and rmdir succeed, how
\* calibredb ends ("ok", "warning" on stderr, another text on "stderr", or a
\* non-zero exit that makes execAsync throw), whether the exported file is in
\* the temporary directory, and the time of the clock.
ExportResult(success, targetFile, tempDir) ==
    [success |-> success, target |-> targetFile, tempDir |-> tempDir]

\* an export that lets calibredb write the file at outputPath itself
exportBookOutcome_inPlace(targetFile, io) ==
    IF ~io.mkdtemp THEN ExportResult(FALSE, targetFile, FALSE)
    ELSE IF io.exec = "throws" THEN ExportResult(FALSE, File(io.clock, "partial"), ~io.rmdir)
    ELSE IF io.exec = "stderr" \/ ~io.exported \/ ~io.mkdir \/ ~io.rename
         THEN ExportResult(FALSE, File(io.clock, "partial"), ~io.rmdir)
    ELSE ExportResult(TRUE, File(io.clock, "book"), ~io.rmdir)

\* CalibreClient.exportBook
exportBookOutcome(targetFile, io) ==
    IF ~io.mkdtemp THEN ExportResult(FALSE, targetFile, FALSE)
    ELSE LET leftover == ~io.rmdir
         IN  IF io.exec = "throws" THEN ExportResult(FALSE, targetFile, leftover)
             ELSE IF io.exec = "stderr" THEN ExportResult(FALSE, targetFile, leftover)
             ELSE IF ~io.exported THEN ExportResult(FALSE, targetFile, leftover)
             ELSE IF ~io.mkdir THEN ExportResult(FALSE, targetFile, leftover)
             ELSE IF ~io.rename THEN ExportResult(FALSE, targetFile, leftover)
             ELSE ExportResult(TRUE, File(io.clock, "book"), leftover)

InitExport ==
    /\ SyncIdle
    /\ supported = {".epub"}
    /\ NoPatch
    /\ NoFix
    /\ fnName = "exporter"
    /\ fnArg \in [target : { NoFile } \cup { File(t, "old") : t \in Times },
                   io : [mkdtemp : BOOLEAN, exec : {"ok", "warning", "stderr", "throws"},
                         exported : BOOLEAN, mkdir : BOOLEAN, rename : BOOLEAN,
                         rmdir : BOOLEAN, clock : { CopyClock }]]
    /\ fnRet = Pending

CallExportBook ==
    /\ fnName = "exporter" /\ fnRet = Pending
    /\ fnName' = "exportBook"
    /\ fnRet' = exportBookOutcome(fnArg.target, fnArg.io)
    /\ UNCHANGED <<fnArg, syncVars, patchVars, fixVars>>

NextExport == CallExportBook

SpecExport == InitExport /\ [][NextExport]_vars

\* --------------------------------------------- the interrupted run
\* an interruption that finds the export writing the target file itself: a
\* file cut short stays at the target path, with the time of the interruption
Interrupt_leavesPartial ==
    /\ pc = "export"
    /\ LET book == books[idx]
       IN  /\ target' = exportBook(target, targetPathOf(canonicalName(book, fmt)))
           /\ hist' = [hist EXCEPT !.prev = [ran |-> TRUE, cleaned |-> FALSE,
                                             errors |-> Len(result.errors),
                                             cleanupFailed |-> FALSE, start |-> now,
                                             updated |-> result.updated,
                                             interrupted |-> book.id]]
    /\ pc' = "idle"
    /\ exitCode' = 1
    /\ UNCHANGED <<otherVars, invocations, books, supported, now, sidecars, idx, fmt,
                   currentFiles, result, run>>

\* The process is killed while exportBook runs for the current record: until
\* its final fs.rename the export has written to its temporary directory only,
\* so the target folder is as it was; nothing of sync() runs any more and the
\* process ends with a non-zero status.
Interrupt ==
    /\ pc = "export"
    /\ LET book == books[idx]
       IN  hist' = [hist EXCEPT !.prev = [ran |-> TRUE, cleaned |-> FALSE,
                                         errors |-> Len(result.errors),
                                         cleanupFailed |-> FALSE, start |-> now,
                                         updated |-> result.updated,
                                         interrupted |-> book.id]]
    /\ pc' = "idle"
    /\ exitCode' = 1
    /\ UNCHANGED <<otherVars, invocations, books, supported, now, target, sidecars, idx, fmt,
                   currentFiles, result, run>>

InitInterrupt ==
    /\ books \in Catalogs
    /\ supported \in SupportedChoices
    /\ now = 0
    /\ target \in UpTo(TargetUniverse, MaxTargetFiles)
    /\ sidecars = {}
    /\ 2 * Len(books) + Cardinality(target) <= MaxObjects
    /\ invocations = MaxRuns
    /\ dryRun = FALSE
    /\ Quiet

NextInterrupt == Next \/ Interrupt

SpecInterrupt == InitInterrupt /\ [][NextInterrupt]_vars

\* ===================================================================
\* Properties
\* ===================================================================
Did(op, id) == \E i \in DOMAIN hist.log : hist.log[i] = Event(op, id)
RunEnded == pc = "close"
ChosenFormat(b) == getPreferredFormat(b.formats)
ErrorsFor(b) ==
    { i \in DOMAIN result.errors : result.errors[i].book = [title |-> b.title, id |-> b.id] }
Quiescent ==
    /\ result.updated = 0 /\ result.koreaderUpdates = 0
    /\ hist.renames = 0 /\ hist.writes = 0
    /\ hist.deleted = {}
    /\ target = hist.pre /\ sidecars = hist.preSc

C2_TargetMirrorsCatalog ==
    (RunEnded /\ hist.cleaned /\ hist.failedAt = {} /\ Len(result.errors) = 0) =>
        { f.name : f \in findBookFiles(target) }
            = { canonicalName(b, ChosenFormat(b)) : b \in Range(books) }

\* C3: after a run without errors every sidecar of a record's id bears the
\* record's canonical name and, when it has a doc_path, the record's target path.
C3_SidecarsFollowRecords ==
    (RunEnded /\ hist.cleaned /\ Len(result.errors) = 0) =>
        \A b \in Range(books) : \A d \in sidecars :
            extractIdFromSdrName(d.name) = b.id =>
                LET filename == canonicalName(b, ChosenFormat(b))
                IN  /\ d.name = FileName(filename.base, filename.id, SdrExt)
                    /\ d.kind = "key" => d.doc = targetPathOf(filename)

\* C4: the cleanup of a run deletes no file that carried the id of a record
\* whose processing ended with an error in that run.
C4_NoLossOnFailure ==
    RunEnded =>
        \A b \in Range(books) :
            (Did("noformat", b.id) \/ Did("exportfailed", b.id)) =>
                \A f \in hist.pre : f.name.id = b.id => f \in target

\* C5 (as claimed): removeObsoleteFiles deletes exactly the supported files, at
\* any depth, whose basename is not kept, and nothing else.
ObsoleteIn(files, kept) ==
    { f \in files : f.name.ext \in supported /\ f.name \notin kept }
C5_ExactDifference ==
    hist.cleaned =>
        /\ hist.deleted = ObsoleteIn(hist.atCleanup, hist.kept)
        /\ target = hist.atCleanup \ ObsoleteIn(hist.atCleanup, hist.kept)

\* C5 (amended): removeObsoleteFiles deletes only supported files, at any
\* depth, whose basename is not kept, and nothing else; when no unlink fails it
\* deletes all of them.
C5_DifferenceUnlessUnlinkFails ==
    hist.cleaned =>
        /\ hist.deleted \subseteq ObsoleteIn(hist.atCleanup, hist.kept)
        /\ target = hist.atCleanup \ hist.deleted
        /\ hist.failedAt = {} => hist.deleted = ObsoleteIn(hist.atCleanup, hist.kept)
C5_Witness ==
    /\ hist.cleaned /\ hist.failedAt = {}
    /\ \E f \in hist.deleted : f.dir = "sub" /\ f.name.id = NoId
    /\ \E f \in target : f.name \in hist.kept /\ f.name.ext \in supported
    /\ \E f \in target : f.name.ext \notin supported /\ f.name \notin hist.kept

\* C6: after a failed export every later record is still processed, and the
\* failed record has exactly one entry in the error list, under its title and id.
Processed(b) ==
    /\ Did("noformat", b.id) \/ Did("resolved", b.id)
    /\ Did("resolved", b.id) => (Did("skipped", b.id) \/ Did("stale", b.id))
    /\ Did("stale", b.id) => (Did("exported", b.id) \/ Did("exportfailed", b.id))
C6_FailureIsolation ==
    RunEnded =>
        \A i \in DOMAIN books :
            Did("exportfailed", books[i].id) =>
                /\ \A j \in DOMAIN books : j > i => Processed(books[j])
                /\ Cardinality(ErrorsFor(books[i])) = 1
C6_Witness ==
    /\ RunEnded /\ Len(books) >= 2
    /\ Did("exportfailed", books[1].id) /\ Did("exported", books[2].id)

\* C7: the staleness oracle answers true when the target path holds no file,
\* and otherwise exactly when last_modified is strictly later than the file's
\* modification time; a record it answers false for is not exported in the run.
C7_OracleStep ==
    pc = "stale" =>
        LET b == books[idx]
            there == { f \in target : f.dir = "root" /\ f.name = canonicalName(b, fmt) }
        IN  (pc' = "export") <=>
                (there = {} \/ \E f \in there : f.mtime < b.last_modified)
C7_StalenessOracle ==
    /\ [][C7_OracleStep]_vars
    /\ [](\A b \in Range(books) :
            Did("skipped", b.id) => ~Did("exported", b.id) /\ ~Did("exportfailed", b.id))
C7_Witness ==
    \E b \in Range(books) :
        /\ Did("skipped", b.id)
        /\ \E f \in target : /\ f.dir = "root" /\ f.name = canonicalName(b, ChosenFormat(b))
                             /\ f.mtime = b.last_modified

\* C8: every record whose format was resolved has its sidecars reconciled, the
\* records whose target file was up to date included.
C8_ReconcileAlways ==
    RunEnded =>
        \A b \in Range(books) : \A d \in sidecars :
            (Did("skipped", b.id) /\ extractIdFromSdrName(d.name) = b.id /\ d.kind = "key")
                => d.doc = targetPathOf(canonicalName(b, ChosenFormat(b)))

\* C9: for a location file with a doc_path assignment, updateDocPath returns
\* the file with only the characters between the value's quotes replaced by the
\* new path: everything up to the opening quote and from the closing quote on
\* is the input's.
C9_PatchExactness ==
    ppc = "done" =>
        \A pre \in Pres, g1 \in Gaps, g2 \in Gaps, old \in Olds, post \in Posts :
            fileContent = WithKey(pre, g1, g2, old, post) =>
                patchedContent = UpToOpenQuote(pre, g1, g2) \o docPathArg \o FromCloseQuote(post)

\* C10: a record gets the "no supported format" error, and no export, exactly
\* when none of its formats is supported; a selected format is supported.
AnySupported(b) == \E i \in DOMAIN b.formats : ("." \o toLowerCase(b.formats[i])) \in supported
C10_FormatResolution ==
    \A b \in Range(books) :
        /\ (Did("noformat", b.id) \/ Did("resolved", b.id)) =>
                (Did("noformat", b.id) <=> ~AnySupported(b))
        /\ ~AnySupported(b) => ~Did("exported", b.id)
        /\ Did("resolved", b.id) => ("." \o toLowerCase(ChosenFormat(b))) \in supported

\* C11: when a format of the preference order is available, getPreferredFormat
\* returns the available format that comes earliest in that order, whatever
\* the order in which the available formats are listed.
Rank(f) == CHOOSE i \in DOMAIN formatPreference : formatPreference[i] = f
C11_FormatPreference ==
    (fnName = "getPreferredFormat" /\ fnRet # Pending
        /\ Range(fnArg) \cap Range(formatPreference) # {}) =>
        /\ fnRet \in Range(fnArg) \cap Range(formatPreference)
        /\ \A g \in Range(fnArg) \cap Range(formatPreference) : Rank(fnRet) <= Rank(g)
C11_Witness ==
    /\ fnName = "getPreferredFormat"
    /\ fnArg = <<"DJVU", "PDF", "EPUB">> /\ fnRet = "EPUB"

\* the parenthesized run of digits of a name that stands right before its
\* suffix, <<>> when there is none; the suffix is ".sdr" for a sidecar name and
\* the extension (the last dot and what follows it) for a file name
IsExtension(rest) ==
    Len(rest) >= 2 /\ rest[1] = "." /\ \A k \in 2..Len(rest) : rest[k] # "."
IdRuns(name, sidecar) ==
    { SubSeq(name, ij[1] + 1, ij[2] - 1) :
        ij \in { x \in (1..Len(name)) \X (1..Len(name)) :
                   /\ x[1] + 1 < x[2]
                   /\ name[x[1]] = "(" /\ name[x[2]] = ")"
                   /\ \A k \in (x[1] + 1)..(x[2] - 1) : isDigit(name[k])
                   /\ LET rest == SubSeq(name, x[2] + 1, Len(name))
                      IN  IF sidecar THEN rest = DotSdr ELSE IsExtension(rest) } }
RECURSIVE Pow10(_)
Pow10(n) == IF n = 0 THEN 1 ELSE 10 * Pow10(n - 1)
RECURSIVE PlaceSum(_, _)
PlaceSum(d, k) ==
    IF k > Len(d) THEN 0 ELSE digitValue(d[k]) * Pow10(Len(d) - k) + PlaceSum(d, k + 1)
IntegerValue(d) == PlaceSum(d, 1)
\* ret is the integer n, as a number or written out in decimal
IsInteger(ret, n) ==
    \/ ret.t = "number" /\ ret.v = n
    \/ /\ ret.t = "string" /\ ret.v # <<>> /\ IntegerValue(ret.v) = n
       /\ Len(ret.v) > 1 => ret.v[1] # "0"
ReturnsIdOf(ret, name, sidecar) ==
    LET runs == IdRuns(name, sidecar)
    IN  IF runs = {} THEN ret.t = "null"
        ELSE \A d \in runs : IsInteger(ret, IntegerValue(d))

\* C12 (as claimed): each of the three extractors returns the integer value of
\* the parenthesized run of digits that stands right before the suffix (".sdr"
\* for a sidecar name, the extension for a book file), and absent otherwise;
\* the legacy extractId is asked about the names its caller hands it, those
\* ending in ".epub" or ".sdr".
EndsWith(name, e) == Len(name) >= Len(e) /\ SubSeq(name, Len(name) - Len(e) + 1, Len(name)) = e
C12_ExtractorsReturnInteger ==
    /\ fnName = "extractIdFromFilename" => ReturnsIdOf(fnRet, fnArg, FALSE)
    /\ fnName = "extractIdFromSdrName" => ReturnsIdOf(fnRet, fnArg, TRUE)
    /\ (fnName = "extractId" /\ EndsWith(fnArg, DotSdr)) => ReturnsIdOf(fnRet, fnArg, TRUE)
    /\ (fnName = "extractId" /\ EndsWith(fnArg, DotEpub)) => ReturnsIdOf(fnRet, fnArg, FALSE)

\* C12 (amended): extractIdFromFilename and extractIdFromSdrName return that
\* integer value, or absent; the legacy extractId knows only the suffixes
\* ".epub" and ".sdr" and returns the run of digits itself, as a string.
C12_ExtractorsByKind ==
    /\ fnName = "extractIdFromFilename" =>
            (fnRet.t \in {"null", "number"} /\ ReturnsIdOf(fnRet, fnArg, FALSE))
    /\ fnName = "extractIdFromSdrName" =>
            (fnRet.t \in {"null", "number"} /\ ReturnsIdOf(fnRet, fnArg, TRUE))
    /\ fnName = "extractId" =>
            LET runs == IdRuns(fnArg, TRUE)
                        \cup { d \in IdRuns(fnArg, FALSE) : EndsWith(fnArg, DotEpub) }
            IN  IF runs = {} THEN fnRet.t = "null"
                ELSE fnRet.t = "string" /\ runs = { fnRet.v }
C12_Witness ==
    /\ fnName = "extractIdFromSdrName"
    /\ fnArg = <<"(", "0", ")", "(", "7", ")">> \o DotSdr
    /\ fnRet = Num(7)

\* C13: after a run whose cleanup met no failing unlink, no id is carried by
\* more than one supported file of the target folder, at any depth.
C13_AtMostOneArtifactPerId ==
    (RunEnded /\ hist.cleaned /\ hist.failedAt = {}) =>
        \A id \in Ids :
            Cardinality({ f \in findBookFiles(target) : f.name.id = id }) <= 1

\* C14: a run started with dryRun set leaves the target folder and the sidecar
\* tree as they were when it started.
C14_DryRunChangesNothing ==
    (dryRun /\ RunEnded) =>
        /\ target = hist.pre /\ sidecars = hist.preSc
        /\ hist.renames = 0 /\ hist.writes = 0 /\ hist.deleted = {}

\* C16: the command ends with status 0 exactly when its run started and
\* completed, errors in the result or not; it ends with another status only
\* when the setup failed, before any run started.
Ended == pc = "idle" /\ exitCode # Running
C16_ExitCode ==
    Ended =>
        /\ exitCode = 0 <=> Did("closed", NoId)
        /\ exitCode # 0 => (hist.log = <<>> /\ result = ZeroResult)
C16_Witness ==
    /\ Ended /\ exitCode = 0
    /\ Len(books) > 0 /\ Len(result.errors) > 0
    /\ Did("exportfailed", books[1].id)

\* C17: a command whose run could not enumerate the catalog ends with a status
\* other than 0.
EnumerationFailed ==
    \E i \in DOMAIN result.errors : result.errors[i] = ErrorEntry(SystemBook, "system")
C17_EnumerationFailureExitsNonZero ==
    (Ended /\ EnumerationFailed) => exitCode # 0

\* C18: a run closes the catalog client exactly once, on every way out, the
\* failed enumeration included; the close comes after the records and the
\* cleanup, and nothing of the run follows it.
Closes == Cardinality({ i \in DOMAIN hist.log : hist.log[i].op = "closed" })
C18_ClosedExactlyOnce ==
    /\ pc \in {"enumerate", "record", "stale", "export", "reconcile", "cleanup", "close"}
            => Closes = 0
    /\ (pc = "report" \/ (Ended /\ exitCode = 0)) =>
            /\ Closes = 1
            /\ hist.log[Len(hist.log)].op = "closed"
            /\ hist.cleaned => hist.log[Len(hist.log) - 1].op = "cleanup"
C18_Witness ==
    /\ pc = "report" /\ EnumerationFailed /\ ~hist.cleaned
    /\ Closes = 1

\* C15: in a dry run the legacy fixer creates no backup, renames no sidecar
\* directory and writes no metadata file: the docsettings tree is, at every
\* moment of the call, the tree it found.
C15_FixerDryRunChangesNothing ==
    fixDryRun =>
        /\ docsettings = fixHist.pre
        /\ backup = NoBackup
        /\ fixHist.renames = 0 /\ fixHist.writes = 0
\* a finished dry run over a sidecar that a real run would rename and patch
C15_Witness ==
    /\ fixDryRun /\ fpc = "done" /\ fixHist.wouldUpdateCount > 0
    /\ \E d \in docsettings : \E i \in DOMAIN epubFiles :
          /\ extractId(d.name) = epubFiles[i].id
          /\ d.name # newSidecarName(epubFiles[i])
          /\ d.meta = DocPath(<<"o">>)

\* C19: in a real run the complete copy of the docsettings tree, as it was
\* found, exists before the first rename or metadata write; when the backup
\* fails the call is over and nothing was renamed or written.
C19_BackupBeforeChanges ==
    ~fixDryRun =>
        /\ (fpc \in {"scan", "loop", "done"} \/ fixHist.renames > 0 \/ fixHist.writes > 0
              \/ docsettings # fixHist.pre)
              => backup = [state |-> "complete", copy |-> fixHist.pre]
        /\ backup.state = "partial" =>
              /\ fpc = "failed" /\ docsettings = fixHist.pre
              /\ fixHist.renames = 0 /\ fixHist.writes = 0
\* a real run that renamed and patched a sidecar after its backup
C19_Witness ==
    /\ ~fixDryRun /\ fpc = "done"
    /\ fixHist.renames > 0 /\ fixHist.writes > 0
    /\ backup.state = "complete" /\ backup.copy # docsettings

\* C20: after a real run in which no rename failed, every sidecar directory
\* whose id is the id of an epub file carries that file's name with .epub
\* replaced by .sdr.
C20_SidecarNamedAfterEpub ==
    (fpc = "done" /\ ~fixDryRun /\ fixHist.renameFailed = 0) =>
        \A d \in docsettings : \A f \in epubDir :
            (endsWith(f, DotEpub) /\ extractId(f) # Null /\ extractId(d.name) = extractId(f))
                => d.name = SubSeq(f, 1, Len(f) - Len(DotEpub)) \o DotSdr

\* C21: the kept set handed to the cleanup holds the canonical name of every
\* record whose format was resolved, skipped ones included, and the artifact of
\* a skipped record is still in the target folder after the cleanup.
C21_KeptCoversResolved ==
    hist.cleaned =>
        \A b \in Range(books) :
            LET filename == canonicalName(b, ChosenFormat(b))
            IN  /\ Did("resolved", b.id) => filename \in hist.kept
                /\ Did("skipped", b.id) => stat(target, targetPathOf(filename)) # {}
C21_Witness ==
    /\ hist.cleaned
    /\ \E b \in Range(books) :
          /\ Did("skipped", b.id)
          /\ \E f \in findBookFiles(hist.atCleanup) :
                PathOf(f) = targetPathOf(canonicalName(b, ChosenFormat(b))) /\ f \in target

\* C22: the records are processed one at a time in enumeration order, a record
\* being in its final state before the next one starts; no target file goes
\* away before the cleanup, the cleanup starts when every record is in its
\* final state, and nothing but the close follows it.
Final(b) ==
    \/ Did("noformat", b.id) \/ Did("skipped", b.id)
    \/ Did("exportfailed", b.id) \/ Did("reconciled", b.id)
Position(id) == CHOOSE i \in DOMAIN books : books[i].id = id
C22_RunOrdering ==
    /\ \A i, j \in DOMAIN hist.log :
          (i < j /\ hist.log[i].id # NoId /\ hist.log[j].id # NoId) =>
              /\ Position(hist.log[i].id) <= Position(hist.log[j].id)
              /\ Position(hist.log[i].id) < Position(hist.log[j].id)
                    => Final(books[Position(hist.log[i].id)])
    /\ ~hist.cleaned => { PathOf(f) : f \in hist.pre } \subseteq { PathOf(f) : f \in target }
    /\ hist.cleaned =>
          /\ \A b \in Range(books) : Final(b)
          /\ \A i, j \in DOMAIN hist.log :
                (hist.log[i].op = "cleanup" /\ i < j) => hist.log[j].op = "closed"
          /\ target = hist.atCleanup \ hist.deleted
C22_Witness ==
    /\ pc = "close" /\ hist.cleaned /\ Len(books) = MaxBooks
    /\ Did("reconciled", books[1].id) /\ Did("exportfailed", books[2].id)

\* C24: the steps a record takes in a run are a beginning of: no format; or
\* resolved, skipped; or resolved, stale, exported, reconciled; or resolved,
\* stale, export failed.  An export is attempted only for a record whose target
\* file was missing or older than the record.
StepsOf(b) ==
    LET mine(e) == e.id = b.id
        own == SelectSeq(hist.log, mine)
    IN  [i \in DOMAIN own |-> own[i].op]
RecordPaths ==
    { <<"noformat">>, <<"resolved", "skipped">>,
      <<"resolved", "stale", "exported", "reconciled">>,
      <<"resolved", "stale", "exportfailed">> }
IsPrefix(s, t) == Len(s) <= Len(t) /\ \A i \in DOMAIN s : s[i] = t[i]
C24_RecordStateMachine ==
    \A b \in Range(books) :
        /\ \E path \in RecordPaths : IsPrefix(StepsOf(b), path)
        /\ (Did("exported", b.id) \/ Did("exportfailed", b.id)) =>
              LET there == stat(hist.pre, targetPathOf(canonicalName(b, ChosenFormat(b))))
              IN  there = {} \/ \E f \in there : b.last_modified > f.mtime
        /\ RunEnded /\ hist.cleaned => StepsOf(b) \in RecordPaths
C24_Witness ==
    /\ RunEnded /\ hist.cleaned /\ Len(books) = MaxBooks
    /\ StepsOf(books[1]) = <<"resolved", "stale", "exported", "reconciled">>
    /\ StepsOf(books[2]) = <<"resolved", "stale", "exportfailed">>

\* C23: when an unlink fails in removeObsoleteFiles, every other obsolete file
\* (supported extension, basename not kept) is deleted by the same call.
C23_CleanupFailureIsolation ==
    (hist.cleaned /\ hist.failedAt # {}) =>
        hist.deleted = ObsoleteIn(hist.atCleanup, hist.kept) \ hist.failedAt

\* C30: for a location file without a doc_path key and with the marker
\* "return {", updateDocPath returns the file with one insertion, placed after
\* the marker (white space at most in between), that holds the assignment
\* ["doc_path"] = "<path>"; the characters before and after the insertion are
\* the file's, in order.
Assignment(path) == DocPathKey \o <<" ", "=", " ", Quote>> \o path \o <<Quote>>
Contains(s, w) == indexOf(s, w) # -1
C30_InsertAfterMarker ==
    (ppc = "done" /\ ~Contains(fileContent, DocPathKey) /\ Contains(fileContent, ReturnMarker)) =>
        LET markerEnd == indexOf(fileContent, ReturnMarker) + Len(ReturnMarker)
            added == Len(patchedContent) - Len(fileContent)
        IN  /\ added > 0
            /\ \E p \in markerEnd..Len(fileContent) :
                  /\ \A k \in (markerEnd + 1)..p : isSpace(fileContent[k])
                  /\ SubSeq(patchedContent, 1, p) = SubSeq(fileContent, 1, p)
                  /\ SubSeq(patchedContent, p + added + 1, Len(patchedContent))
                        = SubSeq(fileContent, p + 1, Len(fileContent))
                  /\ Contains(SubSeq(patchedContent, p + 1, p + added), Assignment(docPathArg))

\* C25: a run that has enumerated the catalog comes to its end, whatever fails
\* for the records (no format, failed export, thrown exception, failed sidecar
\* rename), and the result it returns counts every record of the catalog.
C25_RunTerminates ==
    /\ [](pc = "report" /\ ~EnumerationFailed => result.processed = Len(books))
    /\ (pc = "enumerate") ~> (pc = "report")
C25_Witness ==
    /\ pc = "report" /\ Len(books) = MaxBooks /\ result.processed = MaxBooks
    /\ Did("threw", books[1].id) /\ Did("exportfailed", books[2].id)

\* the sidecar name and the target path a reconciled record asks for
ExpectedSdrName(b) ==
    LET filename == canonicalName(b, ChosenFormat(b))
    IN  FileName(filename.base, filename.id, SdrExt)
ExpectedDocPath(b) == targetPathOf(canonicalName(b, ChosenFormat(b)))
Patchable(d) == d.kind \in {"key", "nokey"}
PatchedTo(d, path) == d.kind = "key" /\ d.doc = path

\* C26: when a sidecar of a reconciled record has to be renamed and another
\* directory already bears the expected name in the same parent, that directory
\* is still there with its own location file, the sidecar is still under its
\* old name, and its location file, when it can be patched, holds the record's
\* target path.
C26_RenameConflict ==
    \A b \in Range(books) : Did("reconciled", b.id) =>
        \A d, e \in hist.preSc :
            (/\ extractIdFromSdrName(d.name) = b.id /\ d.dir = e.dir
             /\ d.name # ExpectedSdrName(b) /\ e.name = ExpectedSdrName(b)) =>
                /\ \E x \in sidecars :
                      /\ PathOf(x) = PathOf(e)
                      /\ IF Patchable(e) THEN PatchedTo(x, ExpectedDocPath(b)) ELSE x = e
                /\ \E y \in sidecars :
                      /\ PathOf(y) = PathOf(d)
                      /\ IF Patchable(d) THEN PatchedTo(y, ExpectedDocPath(b)) ELSE y = d

\* C27: when two or more sidecar directories carry the id of a reconciled
\* record, as many carry it after the run, every location file that can be
\* patched holds the record's target path, and the other directories are as
\* they were but for their name.
WithId(scs, id) == { d \in scs : extractIdFromSdrName(d.name) = id }
C27_DuplicatesKept ==
    \A b \in Range(books) :
        (Did("reconciled", b.id) /\ Cardinality(WithId(hist.preSc, b.id)) >= 2) =>
            /\ Cardinality(WithId(sidecars, b.id)) = Cardinality(WithId(hist.preSc, b.id))
            /\ \A d \in WithId(sidecars, b.id) :
                  d.kind \in {"key", "nokey"} => PatchedTo(d, ExpectedDocPath(b))
            /\ \A k \in MetaKinds \ {"key", "nokey"} :
                  Cardinality({ d \in WithId(sidecars, b.id) : d.kind = k })
                    = Cardinality({ d \in WithId(hist.preSc, b.id) : d.kind = k })

\* C28: when the rename of a sidecar directory fails during the reconciliation
\* of a record (the directory is still under another name than the expected
\* one), the error list has an entry under the record's title and id.
C28_SidecarFailureRecorded ==
    \A b \in Range(books) :
        (/\ Did("reconciled", b.id)
         /\ \E d \in WithId(sidecars, b.id) : d.name # ExpectedSdrName(b)) =>
            ErrorsFor(b) # {}

\* C29: the legacy fixer counts a sidecar as updated exactly when it renamed a
\* directory or rewrote a location file; over sidecars that already bear the
\* expected name and doc_path it reports no update.
C29_ChangeReportedIffChanged ==
    (fpc = "done" /\ ~fixDryRun) =>
        (fixHist.updatedCount > 0 <=> (fixHist.renames > 0 \/ fixHist.writes > 0))

\* C33: once a record has been exported in a run, the staleness test answers
\* "up to date" for it: its target file exists and the record's last_modified
\* is not later than the file's modification time.
C33_FreshAfterExport ==
    \A i \in DOMAIN books :
        LET b == books[i]
            there == stat(target, targetPathOf(canonicalName(b, ChosenFormat(b))))
        IN  (ChosenFormat(b) # NoFormat /\ Did("exported", b.id)) =>
                /\ there # {}
                /\ \A f \in there : ~(b.last_modified > f.mtime)

\* C36: the chosen format, and with it the canonical name, is the same for
\* every order in which the same set of available formats is enumerated.
C36_NameIsFunctionOfRecord ==
    (fnName = "getPreferredFormat" /\ fnRet # Pending) =>
        \A l \in DistinctLists(FormatUniverse, MaxFormats) :
            Range(l) = Range(fnArg) => getPreferredFormat(l) = fnRet

\* C37: a run whose enumeration failed has processed no record, carries the one
\* "System" error, never reached the cleanup, and has left every target file
\* and every sidecar as it found them.
C37_FailedEnumerationDeletesNothing ==
    EnumerationFailed =>
        /\ result.processed = 0
        /\ Len(result.errors) = 1
        /\ ~hist.cleaned /\ hist.deleted = {}
        /\ ~\E i \in DOMAIN hist.log : hist.log[i].op = "cleanup"
        /\ target = hist.pre
        /\ sidecars = hist.preSc
C37_Witness ==
    /\ pc = "report" /\ EnumerationFailed
    /\ \E f \in target : isSupportedBookFile(f.name)
    /\ sidecars # {}

\* C40: applying updateDocPath a second time with the same path changes
\* nothing: the patched content is a fixed point of the patch.
C40_PatchIdempotent ==
    ppc = "done" => updateDocPath(patchedContent, docPathArg) = patchedContent

\* C39: the reconciliation of a record leaves every sidecar directory whose
\* name holds another id as it is: none is renamed, rewritten, removed or
\* created by the step.
OtherIds(scs, id) == { d \in scs : extractIdFromSdrName(d.name) # id }
C39_OtherIdsUntouched ==
    [][pc = "reconcile" => OtherIds(sidecars', books[idx].id) = OtherIds(sidecars, books[idx].id)]_vars
C39_Witness ==
    /\ Len(books) > 0 /\ Did("reconciled", books[1].id)
    /\ hist.renames > 0 /\ hist.writes > 0
    /\ OtherIds(sidecars, books[1].id) # {}

\* C31: findSdrDirectories(id) returns exactly the directories whose name ends
\* with ".sdr" and holds the id, and that lie under no other ".sdr" directory;
\* what lies under an unreadable directory is skipped, the rest is still found.
AncestorsOf(tree, path) ==
    { e \in tree : Len(e.path) < Len(path) /\ e.path = SubSeq(path, 1, Len(e.path)) }
C31_SearchFindsExactly ==
    fnName = "findSdrDirectories" =>
        fnRet = { e.path : e \in { x \in fnArg.tree :
                    /\ fnArg.rootReadable
                    /\ x.kind # "file"
                    /\ EndsWith(basename(x.path), DotSdr)
                    /\ \E d \in IdRuns(basename(x.path), TRUE) : IntegerValue(d) = fnArg.bookId
                    /\ \A a \in AncestorsOf(fnArg.tree, x.path) :
                          a.kind = "dir" /\ ~EndsWith(basename(a.path), DotSdr) } }
C31_Witness ==
    /\ fnName = "findSdrDirectories" /\ fnArg.bookId = 1 /\ fnArg.rootReadable
    /\ fnArg.tree = { Entry(<<<<"d">>>>, "dir"),
                      Entry(<<<<"d">>, <<"(", "1", ")">> \o DotSdr>>, "unreadable"),
                      Entry(<<<<"d">>, <<"(", "1", ")">> \o DotSdr, <<"(", "1", ")">> \o DotSdr>>, "dir") }
    /\ fnRet = { <<<<"d">>, <<"(", "1", ")">> \o DotSdr>> }

\* C38: the id read back from a built file name is the id it was built with,
\* and so is the id read back from the sidecar name derived from that file
\* name, which is the file name with ".sdr" in place of its extension.
C38_RoundTrip ==
    fnName = "roundTrip" =>
        /\ fnRet.fileId = Num(fnArg.id)
        /\ fnRet.sdrId = Num(fnArg.id)
        /\ \E stem \in { SubSeq(fnRet.filename, 1, k) : k \in 0..Len(fnRet.filename) } :
              /\ fnRet.sdrName = stem \o DotSdr
              /\ fnRet.filename \in { stem \o fnArg.extension, stem \o <<".">> \o fnArg.extension }
C38_Witness ==
    /\ fnName = "roundTrip"
    /\ fnArg = [baseName |-> <<"a", ".", "(">>, id |-> 120, extension |-> <<"e", "p", "u", "b">>]
    /\ fnRet.filename = <<"a", ".", "(", " ", "(", "1", "2", "0", ")", ".", "e", "p", "u", "b">>
    /\ fnRet.sdrName = <<"a", ".", "(", " ", "(", "1", "2", "0", ")">> \o DotSdr
    /\ fnRet.fileId = Num(120) /\ fnRet.sdrId = Num(120)

\* C34: copyBookFile answers success = false, with a reason, whenever the source
\* is missing or the target path is left without the complete file, and
\* success = true only over a target file that is present and not older than
\* the source.
C34_CopyResultIsTruthful ==
    fnName = "copyBookFile" =>
        /\ (\/ ~fnArg.source.exists
            \/ ~fnRet.target.exists
            \/ fnRet.target.content = "partial") =>
                (~fnRet.success /\ fnRet.error # "")
        /\ fnRet.success =>
                /\ fnRet.target.exists
                /\ fnArg.source.exists => fnRet.target.mtime >= fnArg.source.mtime

\* C32 (as claimed): a failed exportBook leaves the file at outputPath as it
\* was, and the temporary directory is gone when the call returns, whether it
\* succeeded or failed.
C32_FailedExportLeavesNoTrace ==
    fnName = "exportBook" =>
        /\ ~fnRet.success => fnRet.target = fnArg.target
        /\ ~fnRet.tempDir

\* C32 (amended): a failed exportBook leaves the file at outputPath as it was;
\* the temporary directory is gone when the call returns unless its removal
\* failed, and a failed removal does not change the result of the call.
C32_FailedExportLeavesTarget ==
    fnName = "exportBook" =>
        /\ ~fnRet.success => fnRet.target = fnArg.target
        /\ fnRet.tempDir <=> (fnArg.io.mkdtemp /\ ~fnArg.io.rmdir)
        /\ fnRet.success = exportBookOutcome(fnArg.target, [fnArg.io EXCEPT !.rmdir = TRUE]).success
C32_Witness ==
    /\ fnName = "exportBook"
    /\ fnArg.target = File(0, "old")
    /\ fnArg.io.mkdtemp /\ fnArg.io.exec = "ok" /\ fnArg.io.exported /\ fnArg.io.mkdir
    /\ ~fnArg.io.rename /\ fnArg.io.rmdir
    /\ fnRet = ExportResult(FALSE, File(0, "old"), FALSE)

\* C35: in the run that follows a run interrupted during the export of a
\* record, the staleness test never takes that record for up to date: the
\* record is found stale and, unless the catalog cannot be enumerated, the run
\* exports it again, which puts its file at the target path.
C35_RecoveryAfterInterruption ==
    \A i \in DOMAIN books :
        LET b == books[i]
        IN  (hist.prev.interrupted = b.id /\ run = MaxRuns /\ pc # "idle") =>
                /\ ~Did("skipped", b.id)
                /\ (RunEnded /\ ~EnumerationFailed) =>
                        (Did("stale", b.id)
                         /\ (Did("exported", b.id) \/ Did("exportfailed", b.id)))
                /\ Did("exported", b.id) =>
                        stat(target, targetPathOf(canonicalName(b, ChosenFormat(b)))) # {}
C35_Witness ==
    /\ Len(books) > 0 /\ hist.prev.interrupted = books[1].id /\ run = MaxRuns
    /\ hist.pre = {}
    /\ Did("stale", books[1].id) /\ Did("exported", books[1].id)
    /\ stat(target, targetPathOf(canonicalName(books[1], ChosenFormat(books[1])))) # {}

====
